---- MODULE Spec2Model ----
(***************************************************************************)
(* Verification model of tiltak: the Monte Carlo tree search of            *)
(* src/mcts.rs, the policy and value evaluators of src/evaluation and the  *)
(* minmax baseline of src/minmax.rs.                                       *)
(*                                                                         *)
(* Scores (f32 / f64 winning probabilities) are fixed-point integers in    *)
(* units of 1/One.  The game the search runs on (crate::board) is not part *)
(* of the sources: it is an arbitrary finite game whose answers            *)
(* (game_result, static evaluation, legal moves with priors) are drawn     *)
(* from small sets the first time a position is asked for them.            *)
(***************************************************************************)
EXTENDS Integers, Sequences, FiniteSets, TLC

(***************************************************************************)
(* Bounds of the model.                                                    *)
(***************************************************************************)
\* largest `nodes` argument handed to mcts()
MaxNodes == 4
\* largest number of legal moves of a position of the abstract game
MaxMoves == 2
\* largest argument of arena_size_for_nodes, and the number of selects the
\* analysis loop is followed for
MaxArenaNodes == 3
MaxSelects == 6

(***************************************************************************)
(* Scores.                                                                 *)
(***************************************************************************)
\* the Score 1.0
One == 1000
C_PUCT == 1

Max(a, b) == IF a >= b THEN a ELSE b
Min(a, b) == IF a <= b THEN a ELSE b

RECURSIVE SqrtSearch(_, _, _)
SqrtSearch(x, lo, hi) ==
    IF lo >= hi THEN lo
    ELSE LET mid == (lo + hi + 1) \div 2 IN
         IF mid * mid <= x THEN SqrtSearch(x, mid, hi) ELSE SqrtSearch(x, lo, mid - 1)

\* (visits as Score).sqrt(), in units of 1/One
VisitsSqrt(visits) == SqrtSearch(visits * One * One, 0, One * Max(visits, 1))

(***************************************************************************)
(* GameResultForUs and SearchResult.                                       *)
(***************************************************************************)
NotGameResultForUs(r) ==
    CASE r = "Win" -> "Loss"
      [] r = "Loss" -> "Win"
      [] OTHER -> "Draw"

score(r) ==
    CASE r = "Win" -> One
      [] r = "Loss" -> 0
      [] OTHER -> One \div 2

Value(s) == [type |-> "Value", score |-> s]
Decisive(n, av, r) == [type |-> "Decisive", nodes |-> n, action_value |-> av, result |-> r]

\* the result seen from the parent, the action value left as it is
NotSearchResultSameValue(r) ==
    IF r.type = "Value" THEN Value(One - r.score)
    ELSE Decisive(r.nodes, r.action_value, NotGameResultForUs(r.result))
NotSearchResult(r) ==
    IF r.type = "Value" THEN Value(One - r.score)
    ELSE Decisive(r.nodes, r.nodes * One - r.action_value, NotGameResultForUs(r.result))

(***************************************************************************)
(* The board, as the search sees it.                                       *)
(***************************************************************************)
Colors == {"White", "Black"}
OtherColor(c) == IF c = "White" THEN "Black" ELSE "White"

StartBoard(c) == [history |-> <<>>, side_to_move |-> c]

do_move(board, mv) ==
    [history |-> Append(board.history, mv), side_to_move |-> OtherColor(board.side_to_move)]

\* what the game answers for one position: its result, its static evaluation
\* (a winning probability for White) and its legal moves with their priors
GameResults == {"None", "WhiteWin", "BlackWin", "Draw"}
Evals == {One \div 4, (3 * One) \div 4}

UniformPrior(n, i) == One \div n
FallingPrior(n, i) == (2 * (n + 1 - i) * One) \div (n * (n + 1))

MoveLists ==
    { [i \in 1..n |-> [mv |-> i, score |-> IF falling THEN FallingPrior(n, i)
                                            ELSE UniformPrior(n, i)]] :
        n \in 1..MaxMoves, falling \in BOOLEAN }

GameInputs == [game_result : GameResults, static_eval : Evals, moves : MoveLists]

(***************************************************************************)
(* Tree.                                                                   *)
(***************************************************************************)
new_root ==
    [children |-> <<>>, visits |-> 0, total_action_value |-> 0,
     mean_action_value |-> One \div 2, heuristic_score |-> 0, known_result |-> "None"]

new_node(heuristic_score) ==
    [children |-> <<>>, visits |-> 0, total_action_value |-> 0,
     mean_action_value |-> One \div 10, heuristic_score |-> heuristic_score,
     known_result |-> "None"]

exploration_value(self, parent_visits_sqrt) ==
    (One - self.mean_action_value)
        + ((C_PUCT * self.heuristic_score * parent_visits_sqrt) \div One) \div (1 + self.visits)

\* the test of select's first branch
IsProvenNever(self) == FALSE
IsProven(self) == self.known_result # "None"

\* the result of a finished game for the side to move
GameResultForWhite(game_result, side_to_move) ==
    CASE game_result = "Draw" -> "Draw"
      [] game_result = "BlackWin" -> "Loss"
      [] OTHER -> "Win"
GameResultForSideToMove(game_result, side_to_move) ==
    CASE game_result = "Draw" -> "Draw"
      [] game_result = "WhiteWin" /\ side_to_move = "Black" -> "Loss"
      [] game_result = "BlackWin" /\ side_to_move = "White" -> "Loss"
      [] OTHER -> "Win"

expand(self, board, inp) ==
    IF inp.game_result # "None" THEN
        LET game_result_for_us ==
                GameResultForSideToMove(inp.game_result, board.side_to_move)
        IN [tree |-> [self EXCEPT !.known_result = game_result_for_us,
                                  !.visits = 1,
                                  !.mean_action_value = score(game_result_for_us),
                                  !.total_action_value = score(game_result_for_us)],
            result |-> Value(score(game_result_for_us))]
    ELSE
        LET static_eval == IF board.side_to_move = "Black" THEN One - inp.static_eval
                           ELSE inp.static_eval
        IN [tree |-> [self EXCEPT !.visits = 1,
                                  !.total_action_value = static_eval,
                                  !.mean_action_value = static_eval],
            result |-> Value(static_eval)]

\* board.generate_moves_with_params: the moves of a position are a function of it
generate_moves(board, inp, generated) ==
    IF board.history \in DOMAIN generated THEN generated[board.history] ELSE inp.moves

init_children(self, board, inp, generated) ==
    LET moves == generate_moves(board, inp, generated) IN
    [self EXCEPT !.children =
        @ \o [i \in 1..Len(moves) |-> [tree |-> new_node(moves[i].score), mv |-> moves[i].mv]]]

\* select on a node whose result is known: one more visit of the same value
RevisitVisitsOnly(self) == [self EXCEPT !.visits = @ + 1]
RevisitTwice(self) ==
    [self EXCEPT !.visits = @ + 2, !.total_action_value = @ + 2 * self.mean_action_value]
Revisit(self) ==
    [self EXCEPT !.visits = @ + 1, !.total_action_value = @ + self.mean_action_value]

\* "Only generate child moves on the 2nd visit"
SecondVisitOrLater(self) == self.visits >= 1
SecondVisit(self) == self.visits = 1

\* the result a node all of whose children are lost for it propagates
AllLostAfter(node) == Decisive(1, One, "Loss")
AllLost(node) ==
    Decisive(node.visits, node.visits * One - node.total_action_value, "Loss")

\* the result a node propagates when the child it selected is a win for it
ChildLostAfterReset(node, received) == Decisive(1, One, "Win")
ChildLostReceived(node, received) ==
    IF received.type = "Decisive" THEN received
    ELSE Decisive(node.visits, node.total_action_value, "Win")
ChildLost(node, received) == Decisive(node.visits, node.total_action_value, "Win")

\* self.total_action_value after the back-propagation of `result`
BackPropTotalNodes(total_action_value, result) ==
    IF result.type = "Decisive"
    THEN total_action_value - result.action_value + result.nodes * score(result.result)
    ELSE total_action_value + result.score
BackPropTotal(total_action_value, result) ==
    IF result.type = "Decisive"
    THEN total_action_value - result.action_value
            + (IF result.result = "Win" THEN One ELSE 0)
    ELSE total_action_value + result.score

\* self.visits after the back-propagation of `result`
BackPropVisitsPlusOne(visits, result) == visits + 1
BackPropVisits(visits, result) ==
    IF result.type = "Decisive" THEN visits + 1 - result.nodes ELSE visits + 1

\* the loop over the children, keeping the first of the best children
RECURSIVE BestChildFirst(_, _, _, _, _)
BestChildFirst(children, i, best_child_node_index, best_exploration_value, visits_sqrt) ==
    IF i > Len(children) THEN best_child_node_index
    ELSE LET child == children[i].tree IN
         IF child.known_result \in {"Win", "Loss"} THEN
             IF child.known_result = "Loss" THEN i
             ELSE BestChildFirst(children, i + 1, best_child_node_index,
                                 best_exploration_value, visits_sqrt)
         ELSE LET child_exploration_value == exploration_value(child, visits_sqrt) IN
              IF child_exploration_value > best_exploration_value
              THEN BestChildFirst(children, i + 1, i, child_exploration_value, visits_sqrt)
              ELSE BestChildFirst(children, i + 1, best_child_node_index,
                                  best_exploration_value, visits_sqrt)

\* the loop over the children, stopping at any proven child
RECURSIVE BestChildAnyProven(_, _, _, _, _)
BestChildAnyProven(children, i, best_child_node_index, best_exploration_value, visits_sqrt) ==
    IF i > Len(children) THEN best_child_node_index
    ELSE LET child == children[i].tree IN
         IF child.known_result \in {"Win", "Loss"} THEN i
         ELSE LET child_exploration_value == exploration_value(child, visits_sqrt) IN
              IF child_exploration_value >= best_exploration_value
              THEN BestChildAnyProven(children, i + 1, i, child_exploration_value, visits_sqrt)
              ELSE BestChildAnyProven(children, i + 1, best_child_node_index,
                                      best_exploration_value, visits_sqrt)

\* the loop over the children of select
RECURSIVE BestChild(_, _, _, _, _)
BestChild(children, i, best_child_node_index, best_exploration_value, visits_sqrt) ==
    IF i > Len(children) THEN best_child_node_index
    ELSE LET child == children[i].tree IN
         IF child.known_result \in {"Win", "Loss"} THEN
             IF child.known_result = "Loss" THEN i
             ELSE BestChild(children, i + 1, best_child_node_index,
                            best_exploration_value, visits_sqrt)
         ELSE LET child_exploration_value == exploration_value(child, visits_sqrt) IN
              IF child_exploration_value >= best_exploration_value
              THEN BestChild(children, i + 1, i, child_exploration_value, visits_sqrt)
              ELSE BestChild(children, i + 1, best_child_node_index,
                             best_exploration_value, visits_sqrt)

\* the record of one call of select: the node and the board it was called on,
\* the branch it took, the node once its children are initialised, the node
\* and the board it left, what it returned, the child it descended into and
\* the (negated) result it received from that child; for a call that expands
\* the node, the game_result of the board
NoResult == [type |-> "None"]
Call(self, board, branch, node, after, board_after, result, index, received) ==
    [self |-> self, board |-> board, branch |-> branch, node |-> node, after |-> after,
     board_after |-> board_after, result |-> result, index |-> index,
     received |-> received]

\* one iteration of search from node `self` on `board`; returns the node, the
\* board as the iteration leaves it, the SearchResult, the positions whose
\* moves have been generated and the calls of select made, outermost first
RECURSIVE select(_, _, _, _)
select(self, board, inp, generated) ==
    IF IsProven(self) THEN
        LET after == Revisit(self)
        IN [tree |-> after,
            board |-> board, result |-> Value(self.mean_action_value),
            generated |-> generated,
            calls |-> <<Call(self, board, "known", self, after, board,
                             Value(self.mean_action_value), 0, NoResult)>>]
    ELSE IF self.visits = 0 THEN
        LET e == expand(self, board, inp) IN
        [tree |-> e.tree, board |-> board, result |-> e.result, generated |-> generated,
         calls |-> <<Call(self, board, "expand", self, e.tree, board, e.result, 0,
                          [type |-> "GameResult", game_result |-> inp.game_result])>>]
    ELSE
        LET node == IF SecondVisit(self) THEN init_children(self, board, inp, generated)
                    ELSE self
            gen == IF SecondVisit(self) /\ board.history \notin DOMAIN generated
                   THEN (board.history :> inp.moves) @@ generated
                   ELSE generated
            visits_sqrt == VisitsSqrt(node.visits)
            best_child_node_index == BestChild(node.children, 1, 1, 0, visits_sqrt)
            child == node.children[best_child_node_index].tree
            mv == node.children[best_child_node_index].mv
        IN
        IF child.known_result = "Win" THEN
            LET after == [node EXCEPT !.known_result = "Loss", !.visits = 1,
                                      !.total_action_value = 0, !.mean_action_value = 0]
                result == AllLost(node)
            IN [tree |-> after,
                board |-> board,
                result |-> result,
                generated |-> gen,
                calls |-> <<Call(self, board, "all_lost", node, after, board, result,
                                 best_child_node_index, NoResult)>>]
        ELSE
            LET sub == select(child, do_move(board, mv), inp, gen)
                result == NotSearchResult(sub.result)
                withChild == [node EXCEPT !.children[best_child_node_index].tree = sub.tree]
            IN
            IF sub.tree.known_result = "Loss" THEN
                LET after == [withChild EXCEPT !.known_result = "Win", !.visits = 1,
                                               !.mean_action_value = One,
                                               !.total_action_value = One]
                    result_to_propagate == ChildLost(node, result)
                IN [tree |-> after,
                    board |-> sub.board,
                    result |-> result_to_propagate,
                    generated |-> sub.generated,
                    calls |-> <<Call(self, board, "child_lost", node, after, sub.board,
                                     result_to_propagate, best_child_node_index, result)>>
                                \o sub.calls]
            ELSE
                LET visits == BackPropVisits(node.visits, result)
                    total_action_value == BackPropTotal(node.total_action_value, result)
                    after == [withChild EXCEPT
                                !.visits = visits,
                                !.total_action_value = total_action_value,
                                !.mean_action_value = total_action_value \div visits]
                IN
                [tree |-> after,
                 board |-> sub.board,
                 result |-> result,
                 generated |-> sub.generated,
                 calls |-> <<Call(self, board, "descended", node, after, sub.board, result,
                                  best_child_node_index, result)>> \o sub.calls]

(***************************************************************************)
(* best_move and pv.                                                       *)
(***************************************************************************)
\* the index of the first child that is a proven win for us, 0 if there is none
RECURSIVE FirstWin(_, _)
FirstWin(children, i) ==
    IF i > Len(children) THEN 0
    ELSE IF children[i].tree.known_result = "Win" THEN i
    ELSE FirstWin(children, i + 1)

RECURSIVE FirstLoss(_, _)
FirstLoss(children, i) ==
    IF i > Len(children) THEN 0
    ELSE IF children[i].tree.known_result = "Loss" THEN i
    ELSE FirstLoss(children, i + 1)

\* every (move, score) best_move can return; the random draw p picks a child whose
\* share visits^(1/temperature) of the cumulative probability is not empty
best_move(self) ==
    LET win == FirstLoss(self.children, 1) IN
    IF win # 0 THEN
        {[index |-> win, mv |-> self.children[win].mv,
          score |-> One - self.children[win].tree.mean_action_value]}
    ELSE
        {[index |-> i, mv |-> self.children[i].mv,
          score |-> One - self.children[i].tree.mean_action_value] :
            i \in {j \in 1..Len(self.children) : self.children[j].tree.visits > 0}}

U64_MAX == 2147483647

\* the key PV::next maximises
PvKey(child) == IF child.known_result = "Loss" THEN U64_MAX ELSE child.visits

\* Iterator::max_by_key returns the last of several maximal elements
PvNext(self) ==
    CHOOSE i \in 1..Len(self.children) :
        /\ \A j \in 1..Len(self.children) :
              PvKey(self.children[j].tree) <= PvKey(self.children[i].tree)
        /\ \A j \in (i + 1)..Len(self.children) :
              PvKey(self.children[j].tree) < PvKey(self.children[i].tree)

RECURSIVE pv(_)
pv(self) ==
    IF Len(self.children) = 0 THEN <<>>
    ELSE <<self.children[PvNext(self)].mv>> \o pv(self.children[PvNext(self)].tree)

(***************************************************************************)
(* mcts(board, nodes).                                                     *)
(***************************************************************************)
\* calls: the calls of select of the last iteration
VARIABLES tree, board, nodes, iter, pc, scratch, entry, lastResult, generated, best, calls

mctsVars ==
    <<tree, board, nodes, iter, pc, scratch, entry, lastResult, generated, best, calls>>

\* the state of the evaluators and of minmax, which the search does not touch
VARIABLES priors, features, value, mm, cli

evalVars == <<priors, features, value, mm, cli>>

vars == <<mctsVars, evalVars>>

Idle == [pc |-> "idle"]

EvalIdle == priors = Idle /\ features = Idle /\ value = Idle /\ mm = Idle /\ cli = Idle

\* mcts and the analysis loop are not running
MctsIdle ==
    /\ tree = [children |-> <<>>, visits |-> 0, total_action_value |-> 0,
               mean_action_value |-> 0, heuristic_score |-> 0, known_result |-> "None"]
    /\ board = [history |-> <<>>, side_to_move |-> "White"]
    /\ nodes = 0
    /\ iter = 0
    /\ pc = "idle"
    /\ scratch = board
    /\ entry = board
    /\ lastResult = [type |-> "None"]
    /\ generated = <<>>
    /\ best = [index |-> 0, mv |-> 0, score |-> 0]
    /\ calls = <<>>

\* board.clone(): the board handed to an iteration (`used` is the board the
\* previous iteration left behind)
CloneStale(b, used) == used
CloneBoard(b, used) == b

\* the number of iterations of mcts
IterationsPlain(n) == n
Iterations(n) == Max(n, 2)

MctsInit ==
    /\ tree = new_root
    /\ board \in {StartBoard(c) : c \in Colors}
    /\ nodes \in 0..MaxNodes
    /\ iter = 0
    /\ pc = "loop"
    /\ scratch = board
    /\ entry = board
    /\ lastResult = Value(0)
    /\ generated = <<>>
    /\ best = [index |-> 0, mv |-> 0, score |-> 0]
    /\ calls = <<>>
    /\ EvalIdle

MctsSelect ==
    /\ pc = "loop"
    /\ iter < Iterations(nodes)
    /\ \E inp \in GameInputs :
         LET r == select(tree, CloneBoard(board, scratch), inp, generated) IN
         /\ tree' = r.tree
         /\ scratch' = r.board
         /\ lastResult' = r.result
         /\ generated' = r.generated
         /\ calls' = r.calls
    /\ entry' = CloneBoard(board, scratch)
    /\ iter' = iter + 1
    /\ UNCHANGED <<board, nodes, pc, best>>
    /\ UNCHANGED evalVars

MctsBestMove ==
    /\ pc = "loop"
    /\ iter >= Iterations(nodes)
    /\ IF best_move(tree) = {}
       THEN \* rng.gen_range(0.0, 0.0) panics on its empty range
            /\ pc' = "panic"
            /\ best' = best
       ELSE /\ pc' = "done"
            /\ \E b \in best_move(tree) : best' = b
    /\ UNCHANGED <<tree, board, nodes, iter, scratch, entry, lastResult, generated, calls>>
    /\ UNCHANGED evalVars

Init == MctsInit

Next == MctsSelect \/ MctsBestMove

Spec == Init /\ [][Next]_vars

(***************************************************************************)
(* mcts on games whose positions all have the same static evaluation and   *)
(* moves of equal priors, followed for more iterations.                    *)
(***************************************************************************)
\* the `nodes` argument of the longer search
MaxDeepNodes == 5

DeepInputs ==
    {inp \in GameInputs :
        /\ inp.static_eval = One \div 4
        /\ \A i \in 1..Len(inp.moves) :
              inp.moves[i].score = UniformPrior(Len(inp.moves), i)}

DeepInit ==
    /\ tree = new_root
    /\ board \in {StartBoard(c) : c \in Colors}
    /\ nodes = MaxDeepNodes
    /\ iter = 0
    /\ pc = "loop"
    /\ scratch = board
    /\ entry = board
    /\ lastResult = Value(0)
    /\ generated = <<>>
    /\ best = [index |-> 0, mv |-> 0, score |-> 0]
    /\ calls = <<>>
    /\ EvalIdle

DeepSelect ==
    /\ pc = "loop"
    /\ iter < Iterations(nodes)
    /\ \E inp \in DeepInputs :
         LET r == select(tree, CloneBoard(board, scratch), inp, generated) IN
         /\ tree' = r.tree
         /\ scratch' = r.board
         /\ lastResult' = r.result
         /\ generated' = r.generated
         /\ calls' = r.calls
    /\ entry' = CloneBoard(board, scratch)
    /\ iter' = iter + 1
    /\ UNCHANGED <<board, nodes, pc, best>>
    /\ UNCHANGED evalVars

DeepNext == DeepSelect \/ MctsBestMove

SpecDeep == DeepInit /\ [][DeepNext]_vars

(***************************************************************************)
(* The choice of a child in select, on any list of children.               *)
(***************************************************************************)
\* the longest list of children
MaxChildren == 3

ChildNodes ==
    {[children |-> <<>>, visits |-> visits, total_action_value |-> visits * mean,
      mean_action_value |-> mean, heuristic_score |-> One \div 2,
      known_result |-> known_result] :
        visits \in {0, 1}, mean \in {One \div 4, (3 * One) \div 4},
        known_result \in {"None", "Win", "Loss", "Draw"}}

ChildLists ==
    UNION {[1..n -> ChildNodes] : n \in 1..MaxChildren}

RECURSIVE ChildVisits(_, _)
ChildVisits(child_nodes, i) ==
    IF i > Len(child_nodes) THEN 0
    ELSE child_nodes[i].visits + ChildVisits(child_nodes, i + 1)

\* a node whose visits are those of its children and its own
ParentOf(child_nodes) ==
    [children |-> [i \in 1..Len(child_nodes) |-> [tree |-> child_nodes[i], mv |-> i]],
     visits |-> 1 + ChildVisits(child_nodes, 1),
     total_action_value |-> One \div 2, mean_action_value |-> One \div 2,
     heuristic_score |-> 0, known_result |-> "None"]

ChildrenInit ==
    /\ tree \in {ParentOf(child_nodes) : child_nodes \in ChildLists}
    /\ board = StartBoard("White")
    /\ nodes = 0
    /\ iter = 0
    /\ pc = "children"
    /\ scratch = board
    /\ entry = board
    /\ lastResult = NoResult
    /\ generated = <<>>
    /\ best = [index |-> 0, mv |-> 0, score |-> 0]
    /\ calls = <<>>
    /\ EvalIdle

\* the loop of select over the children and the get_mut that follows it
ChooseChild ==
    /\ pc = "children"
    /\ LET best_child_node_index ==
               BestChild(tree.children, 1, 1, 0, VisitsSqrt(tree.visits))
       IN best' = [index |-> best_child_node_index,
                   mv |-> tree.children[best_child_node_index].mv,
                   score |-> exploration_value(tree.children[best_child_node_index].tree,
                                               VisitsSqrt(tree.visits))]
    /\ pc' = "chosen"
    /\ UNCHANGED <<tree, board, nodes, iter, scratch, entry, lastResult, generated, calls>>
    /\ UNCHANGED evalVars

SpecChildren == ChildrenInit /\ [][ChooseChild]_vars

(***************************************************************************)
(* The analysis loop of analyze_position and bench: a tree whose nodes     *)
(* live in an arena sized by arena_size_for_nodes(nodes), searched until   *)
(* select returns None.                                                    *)
(***************************************************************************)
RECURSIVE CountNodes(_)
RECURSIVE CountChildren(_, _)
CountChildren(children, i) ==
    IF i > Len(children) THEN 0
    ELSE CountNodes(children[i].tree) + CountChildren(children, i + 1)
\* the nodes of a tree, all of them allocated in the arena
CountNodes(self) == 1 + CountChildren(self.children, 1)

\* MctsSetting::arena_size_for_nodes(n): room for n nodes
ArenaCapacity(n) == n

\* the allocation the select needs does not fit the arena
ArenaNeverFull(after, n) == FALSE
ArenaFull(after, n) == CountNodes(after) > ArenaCapacity(n)

\* select's sentinel
NoneResult == [type |-> "None"]

ArenaInit ==
    /\ tree = new_root
    /\ board \in {StartBoard(c) : c \in Colors}
    /\ nodes \in 1..MaxArenaNodes
    /\ iter = 0
    /\ pc = "search"
    /\ scratch = board
    /\ entry = board
    /\ lastResult = Value(0)
    /\ generated = <<>>
    /\ best = [index |-> 0, mv |-> 0, score |-> 0]
    /\ calls = <<>>
    /\ EvalIdle

\* tree.select() of the loop: None, and the tree as it was, when the arena is full
ArenaSelect ==
    /\ pc = "search"
    /\ iter < MaxSelects
    /\ \E inp \in GameInputs :
         LET r == select(tree, CloneBoard(board, scratch), inp, generated) IN
         IF ArenaFull(r.tree, nodes)
         THEN /\ lastResult' = NoneResult
              /\ pc' = "stopped"
              /\ UNCHANGED <<tree, scratch, generated, iter, calls>>
         ELSE /\ calls' = r.calls
              /\ tree' = r.tree
              /\ scratch' = r.board
              /\ lastResult' = r.result
              /\ generated' = r.generated
              /\ iter' = iter + 1
              /\ pc' = pc
    /\ entry' = CloneBoard(board, scratch)
    /\ UNCHANGED <<board, nodes, best>>
    /\ UNCHANGED evalVars

\* tree.best_move() after the loop has stopped
ArenaBestMove ==
    /\ pc = "stopped"
    /\ IF best_move(tree) = {}
       THEN /\ pc' = "panic"
            /\ best' = best
       ELSE /\ pc' = "done"
            /\ \E b \in best_move(tree) : best' = b
    /\ UNCHANGED <<tree, board, nodes, iter, scratch, entry, lastResult, generated, calls>>
    /\ UNCHANGED evalVars

ArenaNext == ArenaSelect \/ ArenaBestMove

SpecArena == ArenaInit /\ [][ArenaNext]_vars

(***************************************************************************)
(* Properties of the search.                                               *)
(***************************************************************************)
RootProvenNow == tree.known_result = "None" /\ tree'.known_result # "None"

\* C1 as stated: every select on the root adds exactly 1 to root.visits.
C1_VisitsPlusOneAlways ==
    [][iter' = iter + 1 => tree'.visits = tree.visits + 1]_vars

\* C1, amended: a select on the root that returns Value adds exactly 1 to
\* root.visits; one that returns Decisive(nodes, ..) leaves root.visits at 1 when
\* the root itself has just been proven and at visits + 1 - nodes otherwise.
C1_RootVisits ==
    [][iter' = iter + 1 =>
        /\ lastResult'.type = "Value" => tree'.visits = tree.visits + 1
        /\ lastResult'.type = "Decisive" =>
              tree'.visits = IF RootProvenNow THEN 1
                             ELSE tree.visits + 1 - lastResult'.nodes]_vars

\* a Decisive result has been back-propagated through an unproven root
C1_Witness ==
    /\ lastResult.type = "Decisive"
    /\ tree.known_result = "None"
    /\ tree.visits >= 2

RECURSIVE KnownKept(_, _)
KnownKept(old, new) ==
    /\ old.known_result # "None" => new.known_result = old.known_result
    /\ Len(new.children) >= Len(old.children)
    /\ \A i \in 1..Len(old.children) :
          KnownKept(old.children[i].tree, new.children[i].tree)

\* C2: once a node's known_result is Some(r), every later select leaves it Some(r).
C2_KnownResultKept == [][KnownKept(tree, tree')]_vars

\* a proven node below the root has been visited again after it was proven
C2_Witness ==
    \E i \in 1..Len(tree.children) :
        /\ tree.children[i].tree.known_result # "None"
        /\ tree.children[i].tree.visits >= 2

\* the moves generated for the position reached by `path` from the root
LegalMoves(path) ==
    IF path \in DOMAIN generated
    THEN {generated[path][i].mv : i \in 1..Len(generated[path])}
    ELSE {}

\* C4: every move of pv() is a legal move of the position the moves before it
\* lead to from the root position.
C4_PvLegal ==
    \A k \in 1..Len(pv(tree)) :
        pv(tree)[k] \in LegalMoves(board.history \o SubSeq(pv(tree), 1, k - 1))

C4_Witness == Len(pv(tree)) >= 2

\* C6: best_move returns a root child's move with the score 1 - mean_action_value
\* of that child, and when some root child is a proven Loss it returns such a
\* child, with score 1.0, whatever the visit counts.
C6_BestMove ==
    pc = "done" =>
        /\ best.index \in 1..Len(tree.children)
        /\ best.mv = tree.children[best.index].mv
        /\ best.score = One - tree.children[best.index].tree.mean_action_value
        /\ (\E i \in 1..Len(tree.children) : tree.children[i].tree.known_result = "Loss")
              => /\ tree.children[best.index].tree.known_result = "Loss"
                 /\ best.score = One

\* best_move has returned a proven-Loss child although an earlier child has
\* visits too and could have been drawn
C6_Witness ==
    /\ pc = "done"
    /\ tree.children[best.index].tree.known_result = "Loss"
    /\ \E i \in 1..(best.index - 1) :
          tree.children[i].tree.visits >= tree.children[best.index].tree.visits

\* C7: mcts runs exactly max(nodes, 2) iterations, each on a copy of the root
\* position; the caller's board never changes.
C7_FreshCopy ==
    /\ board.history = <<>>
    /\ entry = board
    /\ iter <= Max(nodes, 2)
    /\ pc # "loop" => iter = Max(nodes, 2)

\* mcts(board, 0) has finished and its last iteration moved on its copy
C7_Witness ==
    /\ pc = "done"
    /\ nodes < 2
    /\ Len(scratch.history) >= 1

(***************************************************************************)
(* Properties of the calls of select, at every depth of the tree.          *)
(***************************************************************************)
\* the child a call descended into or looked at, before and after the call
ChildBefore(c) == c.node.children[c.index].tree
ChildAfter(c) == c.after.children[c.index].tree

\* the call took select's third branch: the node is visited and not proven
Searched(c) == c.self.known_result = "None" /\ c.self.visits >= 1

\* the call received a Decisive result from a child that is not proven Loss
ReceivedDecisive(c) ==
    /\ Searched(c)
    /\ c.received.type = "Decisive"
    /\ ChildAfter(c).known_result # "Loss"

\* C14 as stated: on Decisive(nodes, action_value, result) from the child the
\* node takes nodes off its visits and action_value off its
\* total_action_value and re-adds nodes visits worth of the score of result.
C14_ReaddsNodesVisits ==
    \A k \in 1..Len(calls) :
        ReceivedDecisive(calls[k]) =>
            LET c == calls[k] IN
            /\ c.after.visits = c.self.visits + 1 - c.received.nodes
            /\ c.after.total_action_value =
                  c.self.total_action_value - c.received.action_value
                      + c.received.nodes * score(c.received.result)

\* C14, amended: the node counts its own visit, takes nodes off its visits
\* and action_value off its total_action_value and re-adds one visit worth of
\* the score of result, the child being re-scored to a single visit: 1.0 for
\* Win and nothing for Loss.  A Decisive result never carries Draw.
C14_ReaddsOneVisit ==
    \A k \in 1..Len(calls) :
        ReceivedDecisive(calls[k]) =>
            LET c == calls[k] IN
            /\ c.received.result \in {"Win", "Loss"}
            /\ c.after.visits = c.self.visits + 1 - c.received.nodes
            /\ c.after.total_action_value =
                  c.self.total_action_value - c.received.action_value
                      + score(c.received.result)
            /\ c.after.mean_action_value = c.after.total_action_value \div c.after.visits
            /\ c.result = c.received

\* a node has received Decisive(2, .., Win) from a child that is not proven
C14_Witness ==
    \E k \in 1..Len(calls) :
        /\ ReceivedDecisive(calls[k])
        /\ calls[k].received.result = "Win"
        /\ calls[k].received.nodes >= 2

\* every child of the node is a proven Win
AllChildrenWin(node) ==
    /\ Len(node.children) >= 1
    /\ \A i \in 1..Len(node.children) : node.children[i].tree.known_result = "Win"

\* C15 as stated: a node all of whose children are proven Win becomes a proven
\* Loss and returns Decisive(v, t, Loss), v and t its visits and its
\* total_action_value before the call; no move is applied to the board.
C15_AllLostTotal ==
    \A k \in 1..Len(calls) :
        (Searched(calls[k]) /\ AllChildrenWin(calls[k].node)) =>
            LET c == calls[k] IN
            /\ c.after.known_result = "Loss"
            /\ c.result = Decisive(c.self.visits, c.self.total_action_value, "Loss")
            /\ c.board_after = c.board
            /\ k = Len(calls)

\* C15, amended: such a node becomes a proven Loss with visits = 1 and
\* total_action_value = mean_action_value = 0.0, and returns
\* Decisive(v, v - t, Loss): the action value it hands up is its visits less
\* its total_action_value, both from before the call.  No move is applied to
\* the board and select is not called on a child.
C15_AllLost ==
    \A k \in 1..Len(calls) :
        (Searched(calls[k]) /\ AllChildrenWin(calls[k].node)) =>
            LET c == calls[k] IN
            /\ c.after.known_result = "Loss"
            /\ c.after.visits = 1
            /\ c.after.total_action_value = 0
            /\ c.after.mean_action_value = 0
            /\ c.after.children = c.node.children
            /\ c.result = Decisive(c.self.visits,
                                   c.self.visits * One - c.self.total_action_value, "Loss")
            /\ c.board_after = c.board
            /\ k = Len(calls)

\* a node with two visits or more has found all its children proven Win
C15_Witness ==
    \E k \in 1..Len(calls) :
        /\ Searched(calls[k])
        /\ AllChildrenWin(calls[k].node)
        /\ calls[k].self.visits >= 2
        /\ calls[k].result.type = "Decisive"

\* the child the call descended into is a proven Loss after the recursive call
ChildProvenLoss(c) ==
    /\ Searched(c)
    /\ ~AllChildrenWin(c.node)
    /\ ChildAfter(c).known_result = "Loss"

\* C16: when the child descended into is a proven Loss after the recursive
\* call, the node becomes a proven Win with visits = 1 and total_action_value
\* = mean_action_value = 1.0 and returns Decisive(v, t, Win), v and t its
\* visits and total_action_value before the call, whatever the child returned.
C16_ChildLost ==
    \A k \in 1..Len(calls) :
        ChildProvenLoss(calls[k]) =>
            LET c == calls[k] IN
            /\ c.after.known_result = "Win"
            /\ c.after.visits = 1
            /\ c.after.total_action_value = One
            /\ c.after.mean_action_value = One
            /\ c.result = Decisive(c.self.visits, c.self.total_action_value, "Win")

\* a node with two visits or more has become a proven Win through a child that
\* itself returned a Decisive result
C16_Witness ==
    \E k \in 1..Len(calls) :
        /\ ChildProvenLoss(calls[k])
        /\ calls[k].self.visits >= 2
        /\ calls[k].received.type = "Decisive"

\* C17: if a child is a proven Loss the first such child is chosen, whatever
\* the exploration values; a child that is a proven Win is chosen only when
\* every child is a proven Win, and is then not descended into (C15);
\* otherwise the chosen child has the greatest exploration value of the
\* children that are not proven Win, and is the last of those that have it.
C17_ChildChoice ==
    pc = "chosen" =>
        LET n == Len(tree.children)
            known(i) == tree.children[i].tree.known_result
            value_of(i) == exploration_value(tree.children[i].tree, VisitsSqrt(tree.visits))
            open == {i \in 1..n : known(i) \notin {"Win", "Loss"}}
        IN /\ best.index \in 1..n
           /\ (\E i \in 1..n : known(i) = "Loss") =>
                 /\ known(best.index) = "Loss"
                 /\ \A i \in 1..(best.index - 1) : known(i) # "Loss"
           /\ known(best.index) = "Win" => \A i \in 1..n : known(i) = "Win"
           /\ (open # {} /\ \A i \in 1..n : known(i) # "Loss") =>
                 /\ best.index \in open
                 /\ \A i \in open : value_of(i) <= value_of(best.index)
                 /\ \A i \in open : i > best.index => value_of(i) < value_of(best.index)

\* the second child, a proven Loss, is chosen over a first child of greater
\* exploration value and before a third one that is a proven Loss too
C17_Witness ==
    /\ pc = "chosen"
    /\ Len(tree.children) = 3
    /\ best.index = 2
    /\ tree.children[1].tree.known_result = "None"
    /\ tree.children[3].tree.known_result = "Loss"
    /\ exploration_value(tree.children[1].tree, VisitsSqrt(tree.visits))
          > exploration_value(tree.children[2].tree, VisitsSqrt(tree.visits))

\* C18: select on a node whose known_result is set adds 1 to visits and
\* mean_action_value to total_action_value and returns
\* Value(mean_action_value); mean_action_value, known_result, heuristic_score
\* and the children stay as they are, no move is applied to the board and no
\* node is created.
C18_KnownNode ==
    \A k \in 1..Len(calls) :
        calls[k].self.known_result # "None" =>
            LET c == calls[k] IN
            /\ c.after.visits = c.self.visits + 1
            /\ c.after.total_action_value =
                  c.self.total_action_value + c.self.mean_action_value
            /\ c.result = Value(c.self.mean_action_value)
            /\ c.after.mean_action_value = c.self.mean_action_value
            /\ c.after.known_result = c.self.known_result
            /\ c.after.heuristic_score = c.self.heuristic_score
            /\ c.after.children = c.self.children
            /\ c.board_after = c.board
            /\ CountNodes(c.after) = CountNodes(c.self)
            /\ k = Len(calls)

\* the root, proven through its children, has been selected again
C18_Witness ==
    /\ Len(calls) = 1
    /\ calls[1].self.known_result # "None"
    /\ Len(calls[1].self.children) >= 1
    /\ calls[1].after.visits >= 2

\* the call expanded a node on a board whose game is over
ExpandedTerminal(c) ==
    /\ c.self.known_result = "None"
    /\ c.self.visits = 0
    /\ c.received.type = "GameResult"
    /\ c.received.game_result # "None"

\* the result of the game for the side to move
ForSideToMove(game_result, side_to_move) ==
    IF game_result = "Draw" THEN "Draw"
    ELSE IF (game_result = "WhiteWin") = (side_to_move = "White") THEN "Win"
    ELSE "Loss"

ChildrenOf(moves) ==
    [i \in 1..Len(moves) |->
        [tree |-> [children |-> <<>>, visits |-> 0, total_action_value |-> 0,
                   mean_action_value |-> new_node(0).mean_action_value,
                   heuristic_score |-> moves[i].score, known_result |-> "None"],
         mv |-> moves[i].mv]]

\* no node that is unproven and has at most one visit has children, and no
\* childless proven node either
RECURSIVE Lazy(_)
Lazy(self) ==
    /\ (self.known_result = "None" /\ self.visits <= 1) => self.children = <<>>
    /\ \A i \in 1..Len(self.children) : Lazy(self.children[i].tree)

\* C20: a node has no children while visits = 0 and after its first visit;
\* its children are created once, at the start of the select that finds
\* visits = 1 and no known_result, one per legal move with the move's prior as
\* heuristic_score and visits 0; a node proven by expand never gets children.
C20_LazyChildren ==
    /\ Lazy(tree)
    /\ \A k \in 1..Len(calls) :
          LET c == calls[k] IN
          /\ c.self.visits = 0 => c.self.children = <<>> /\ c.after.children = <<>>
          /\ (c.self.known_result = "None" /\ c.self.visits = 1) =>
                /\ c.self.children = <<>>
                /\ c.board.history \in DOMAIN generated
                /\ c.node.children = ChildrenOf(generated[c.board.history])
                /\ Len(c.after.children) = Len(c.node.children)
          /\ (c.self.known_result # "None" \/ c.self.visits >= 2) =>
                /\ c.node.children = c.self.children
                /\ Len(c.after.children) = Len(c.self.children)

\* a terminal node proven by expand has been selected again and is childless,
\* and its parent got its children on its second visit
C20_Witness ==
    \E k \in 2..Len(calls) :
        /\ calls[k].self.known_result # "None"
        /\ calls[k].after.visits >= 2
        /\ calls[k].after.children = <<>>
        /\ Len(calls[k - 1].after.children) >= 2

(***************************************************************************)
(* Invariants of the tree between the calls of select.                     *)
(***************************************************************************)
\* the nodes of the tree, each with the side to move of its position
RECURSIVE Nodes(_, _)
Nodes(self, side_to_move) ==
    {[node |-> self, side_to_move |-> side_to_move]}
        \cup UNION {Nodes(self.children[i].tree, OtherColor(side_to_move)) :
                      i \in 1..Len(self.children)}

TreeNodes == Nodes(tree, board.side_to_move)

RECURSIVE SumChildVisits(_, _)
SumChildVisits(children, i) ==
    IF i > Len(children) THEN 0
    ELSE children[i].tree.visits + SumChildVisits(children, i + 1)

\* C21: after every select every node with visits >= 1 has
\* mean_action_value = total_action_value / visits, the proven nodes, the
\* nodes visited again after they were proven and the ancestors corrected by
\* a Decisive result included.
C21_MeanIsTotalOverVisits ==
    \A n \in TreeNodes :
        n.node.visits >= 1 =>
            n.node.mean_action_value = n.node.total_action_value \div n.node.visits

\* a node with children has been re-scored as proven, and an ancestor that
\* stays unproven has applied the Decisive correction, which changed its mean
C21_Witness ==
    /\ \E n \in TreeNodes : n.node.known_result # "None" /\ Len(n.node.children) >= 1
    /\ \E k \in 1..Len(calls) :
          /\ ReceivedDecisive(calls[k])
          /\ calls[k].after.visits >= 2
          /\ calls[k].after.mean_action_value # calls[k].self.mean_action_value

\* C24: every node that is visited and not proven has visits equal to 1 plus
\* the visits of its children, whatever Decisive corrections and resets of
\* proven nodes happened below it; and no call of select takes more nodes off
\* its visits than visits + 1.
C24_VisitsOfChildren ==
    /\ \A n \in TreeNodes :
          (n.node.known_result = "None" /\ n.node.visits >= 1) =>
              n.node.visits = 1 + SumChildVisits(n.node.children, 1)
    /\ \A k \in 1..Len(calls) :
          ReceivedDecisive(calls[k]) =>
              /\ calls[k].self.visits + 1 >= calls[k].received.nodes
              /\ calls[k].after.visits >= 1

\* a Decisive result that took two or more visits off has passed through a
\* node that stays unproven
C24_Witness ==
    \E k \in 1..Len(calls) :
        /\ ReceivedDecisive(calls[k])
        /\ calls[k].received.nodes >= 2
        /\ calls[k].after.known_result = "None"
        /\ Len(calls[k].after.children) >= 2

\* what the expansion of a position gives the side to move, in the games of
\* DeepInputs
DeepEval(side_to_move) ==
    IF side_to_move = "Black" THEN One - One \div 4 ELSE One \div 4

\* the sum over the children of child.visits - child.total_action_value
RECURSIVE SumChildValues(_, _)
SumChildValues(children, i) ==
    IF i > Len(children) THEN 0
    ELSE (children[i].tree.visits * One - children[i].tree.total_action_value)
            + SumChildValues(children, i + 1)

\* C25: every node that is visited and not proven has total_action_value
\* equal to the evaluation of its expansion plus the sum over its children of
\* child.visits - child.total_action_value; and every node of the tree has
\* 0 <= total_action_value <= visits and 0 <= mean_action_value <= 1.
C25_Accounting ==
    \A n \in TreeNodes :
        /\ (n.node.known_result = "None" /\ n.node.visits >= 1) =>
              n.node.total_action_value
                  = DeepEval(n.side_to_move) + SumChildValues(n.node.children, 1)
        /\ n.node.visits >= 1 =>
              /\ 0 <= n.node.total_action_value
              /\ n.node.total_action_value <= n.node.visits * One
        /\ 0 <= n.node.mean_action_value
        /\ n.node.mean_action_value <= One

\* an unproven node with a proven child and a grandchild has received a
\* Decisive result
C25_Witness ==
    \E k \in 1..Len(calls) :
        /\ ReceivedDecisive(calls[k])
        /\ calls[k].after.known_result = "None"
        /\ calls[k].after.visits >= 2
        /\ ChildAfter(calls[k]).known_result = "None"
        /\ ChildAfter(calls[k]).visits >= 2

\* C26: a node with children is a proven Loss only if every child is a
\* proven Win, and a proven Win only if some child is a proven Loss; a
\* proven Draw has no children and was proven by the expansion of a drawn
\* position; a node that is not proven has no child that is a proven Loss.
C26_ProvenSound ==
    /\ \A n \in TreeNodes :
          LET children == n.node.children
              known(i) == children[i].tree.known_result
          IN /\ (Len(children) > 0 /\ n.node.known_result = "Loss") =>
                   \A i \in 1..Len(children) : known(i) = "Win"
             /\ (Len(children) > 0 /\ n.node.known_result = "Win") =>
                   \E i \in 1..Len(children) : known(i) = "Loss"
             /\ n.node.known_result = "Draw" => Len(children) = 0
             /\ n.node.known_result = "None" =>
                   \A i \in 1..Len(children) : known(i) # "Loss"
    /\ \A k \in 1..Len(calls) :
          (calls[k].self.known_result = "None" /\ calls[k].after.known_result = "Draw") =>
              /\ calls[k].branch = "expand"
              /\ calls[k].received.game_result = "Draw"

\* the tree holds a node proven Loss through its two children and a node
\* proven Win through a child
C26_Witness ==
    /\ \E n \in TreeNodes : Len(n.node.children) >= 2 /\ n.node.known_result = "Loss"
    /\ \E n \in TreeNodes : Len(n.node.children) >= 2 /\ n.node.known_result = "Win"

(***************************************************************************)
(* Half-precision numbers (half::f16).  The values the policy works with   *)
(* are multiples of 2^-21 and are held as integers in that unit; a real    *)
(* number is a fraction [num, den] until f16::from_f32 rounds it.          *)
(***************************************************************************)
RECURSIVE Pow2(_)
Pow2(n) == IF n = 0 THEN 1 ELSE 2 * Pow2(n - 1)

\* f16::ONE
F16One == Pow2(21)

\* the binary exponent e <= 0 of num/den: the largest e with 2^e <= num/den
RECURSIVE Exponent(_, _, _)
Exponent(num, den, e) ==
    IF num >= (den + Pow2(-e) - 1) \div Pow2(-e) THEN e ELSE Exponent(num, den, e - 1)

\* floor(num * 2^bits / den) and the remainder, by long division
RECURSIVE Quotient(_, _, _)
Quotient(num, den, bits) ==
    IF bits = 0 THEN [q |-> num \div den, r |-> num % den]
    ELSE LET p == Quotient(num, den, bits - 1) IN
         IF 2 * p.r >= den THEN [q |-> 2 * p.q + 1, r |-> 2 * p.r - den]
         ELSE [q |-> 2 * p.q, r |-> 2 * p.r]

\* f16::from_f32: round to the nearest number with an 11 bit significand, ties
\* to even
RECURSIVE F16FromF32(_)
F16FromF32(x) ==
    IF x.num >= 2 * x.den THEN 2 * F16FromF32([num |-> x.num, den |-> 2 * x.den])
    ELSE LET e == Exponent(x.num, x.den, 0)
             d == Quotient(x.num, x.den, 10 - e)
             significand == IF 2 * d.r > x.den \/ (2 * d.r = x.den /\ d.q % 2 = 1)
                            THEN d.q + 1 ELSE d.q
         IN significand * Pow2(11 + e)

RECURSIVE SumSeq(_, _)
SumSeq(s, i) == IF i > Len(s) THEN 0 ELSE s[i] + SumSeq(s, i + 1)

(***************************************************************************)
(* generate_moves_with_probabilities_colortr: the rescaling of the scores. *)
(***************************************************************************)
\* largest number of moves of a scored position
MaxPriorMoves == 3
\* the scores of the model are the multiples of 2^-ScoreBits up to 1
ScoreBits == 3

\* POLICY_BASELINE = 0.05, as a fraction
POLICY_BASELINE_NUM == 1
POLICY_BASELINE_DEN == 20

\* f16::from_f32(sigmoid(total_value)): the smallest score of the model and
\* the multiples of 2^-ScoreBits
F16Scores == {1} \cup {k * Pow2(21 - ScoreBits) : k \in 1..Pow2(ScoreBits)}

\* (1.0 - POLICY_BASELINE) / score_sum
ScoreFactorUnscaled(score_sum) ==
    [num |-> POLICY_BASELINE_DEN, den |-> POLICY_BASELINE_DEN * score_sum]
ScoreFactor(score_sum) ==
    [num |-> POLICY_BASELINE_DEN - POLICY_BASELINE_NUM, den |-> POLICY_BASELINE_DEN * score_sum]

\* score * score_factor + POLICY_BASELINE / num_moves
RescaledScore(f16score, score_factor, num_moves) ==
    [num |-> f16score * score_factor.num * num_moves
                + POLICY_BASELINE_NUM * (score_factor.den \div POLICY_BASELINE_DEN),
     den |-> score_factor.den * num_moves]

RECURSIVE GCD(_, _)
GCD(a, b) == IF b = 0 THEN a ELSE GCD(b, a % b)

\* score / score_sum is held in lowest terms
NormalizeScores(moves) ==
    LET num_moves == Len(moves)
        score_sum == SumSeq(moves, 1)
    IN [i \in 1..num_moves |->
          LET g == GCD(score_sum, moves[i]) IN
          F16FromF32(RescaledScore(moves[i] \div g, ScoreFactor(score_sum \div g), num_moves))]

PriorsInit ==
    /\ priors \in {[pc |-> "scored", scores |-> s, moves |-> s] :
                     s \in UNION {[1..n -> F16Scores] : n \in 1..MaxPriorMoves}}
    /\ features = Idle /\ value = Idle /\ mm = Idle /\ cli = Idle
    /\ MctsIdle

Normalize ==
    /\ priors.pc = "scored"
    /\ priors' = [priors EXCEPT !.pc = "normalized", !.moves = NormalizeScores(priors.moves)]
    /\ UNCHANGED <<features, value, mm, cli>>
    /\ UNCHANGED mctsVars

SpecPriors == PriorsInit /\ [][Normalize]_vars

Abs(x) == IF x < 0 THEN -x ELSE x

\* C5 as stated: the priors sum to 1.0 within 1e-4 and each is at least
\* POLICY_BASELINE / n.
C5_SumAndFloorExact ==
    priors.pc = "normalized" =>
        /\ Abs(SumSeq(priors.moves, 1) - F16One) <= F16One \div 10000
        /\ \A i \in 1..Len(priors.moves) :
              priors.moves[i] * POLICY_BASELINE_DEN * Len(priors.moves)
                  >= F16One * POLICY_BASELINE_NUM

\* C5, amended: the priors are half-precision numbers, so they sum to 1.0
\* within 5e-4 (each is rounded to 11 significant bits) and each is at least
\* POLICY_BASELINE / n less one part in 2^11.
C5_SumAndFloor ==
    priors.pc = "normalized" =>
        /\ Abs(SumSeq(priors.moves, 1) - F16One) <= F16One \div 2000
        /\ \A i \in 1..Len(priors.moves) :
              priors.moves[i] * POLICY_BASELINE_DEN * Len(priors.moves)
                  >= (F16One - Pow2(10)) * POLICY_BASELINE_NUM

\* two scores 3/4 and 1/4 have been rescaled to priors that sum to 1 - 2^-12
C5_Witness ==
    /\ priors.pc = "normalized"
    /\ Len(priors.moves) = 2
    /\ SumSeq(priors.moves, 1) = F16One - Pow2(9)

(***************************************************************************)
(* features_for_moves.  What features_for_move finds for one move (the     *)
(* features that make it an immediate win) and the move's flat count       *)
(* difference are inputs; a feature is f16::ZERO (0) or f16::ONE (1).      *)
(***************************************************************************)
\* largest number of moves handed to features_for_moves
MaxFeatureMoves == 2
\* the origin squares of the moves
NumOriginSquares == 2

\* the values of fcd_for_move: below, inside and above the clamped ranges
FcdValues == {-4, 1, 7}

\* the immediate-win features features_for_move can set for a move
WinPatterns(kind) ==
    IF kind = "Place"
    THEN {{}, {"place_to_win"}, {"place_our_critical_square"}}
    ELSE {{}, {"move_onto_critical_square_0"}, {"move_onto_critical_square_1"},
          {"spread_that_connects_groups_to_win"},
          {"move_onto_critical_square_1", "spread_that_connects_groups_to_win"}}

FeatureMoves ==
    UNION {[kind : {kind}, square : 1..NumOriginSquares, fcd : FcdValues,
            win : WinPatterns(kind)] : kind \in {"Place", "Move"}}

Zeros(n) == [i \in 1..n |-> 0]

\* a feature set as generate_moves_with_probabilities hands it over
PolicyFeaturesNew ==
    [place_to_win |-> Zeros(1), place_our_critical_square |-> Zeros(1),
     move_onto_critical_square |-> Zeros(3),
     spread_that_connects_groups_to_win |-> Zeros(1),
     decline_win |-> Zeros(1),
     fcd_highest_board |-> Zeros(6), fcd_highest_stack |-> Zeros(6),
     fcd_other |-> Zeros(8)]

Flag(b) == IF b THEN 1 ELSE 0

features_for_move(features_set, mv) ==
    [features_set EXCEPT
        !.place_to_win[1] = Flag("place_to_win" \in mv.win),
        !.place_our_critical_square[1] = Flag("place_our_critical_square" \in mv.win),
        !.move_onto_critical_square[1] = Flag("move_onto_critical_square_0" \in mv.win),
        !.move_onto_critical_square[2] = Flag("move_onto_critical_square_1" \in mv.win),
        !.spread_that_connects_groups_to_win[1] =
            Flag("spread_that_connects_groups_to_win" \in mv.win)]

has_immediate_win_first_index(policy_features) ==
    \/ policy_features.place_to_win[1] # 0
    \/ policy_features.place_our_critical_square[1] # 0
    \/ policy_features.move_onto_critical_square[1] # 0
    \/ policy_features.spread_that_connects_groups_to_win[1] # 0

has_immediate_win(policy_features) ==
    \/ policy_features.place_to_win[1] # 0
    \/ policy_features.place_our_critical_square[1] # 0
    \/ policy_features.move_onto_critical_square[1] # 0
    \/ policy_features.move_onto_critical_square[2] # 0
    \/ policy_features.spread_that_connects_groups_to_win[1] # 0

Clamp(x, lo, hi) == Max(lo, Min(x, hi))

RECURSIVE HighestFcd(_, _, _)
HighestFcd(moves, i, highest) ==
    IF i > Len(moves) THEN highest
    ELSE HighestFcd(moves, i + 1, IF moves[i].fcd > highest THEN moves[i].fcd ELSE highest)

RECURSIVE HighestFcdOfSquare(_, _, _, _)
HighestFcdOfSquare(moves, square, i, highest) ==
    IF i > Len(moves) THEN highest
    ELSE HighestFcdOfSquare(moves, square, i + 1,
            IF moves[i].square = square /\ moves[i].fcd > highest THEN moves[i].fcd
            ELSE highest)

\* the FCD bonus of a movement (indices are one more than in the source)
FcdBonus(features_set, mv, highest_fcd, highest_fcd_of_square) ==
    IF mv.kind # "Move" THEN features_set
    ELSE IF mv.fcd >= highest_fcd
    THEN [features_set EXCEPT !.fcd_highest_board[Clamp(mv.fcd, 1, 6)] = 1]
    ELSE IF mv.fcd >= highest_fcd_of_square
    THEN [features_set EXCEPT !.fcd_highest_stack[Clamp(mv.fcd, -1, 4) + 2] = 1]
    ELSE [features_set EXCEPT !.fcd_other[Clamp(mv.fcd, -3, 4) + 4] = 1]

features_for_moves(feature_sets, moves) ==
    LET highest_fcd == HighestFcd(moves, 1, -1)
        first_pass ==
            [i \in 1..Len(feature_sets) |->
                IF i > Len(moves) THEN feature_sets[i]
                ELSE FcdBonus(features_for_move(feature_sets[i], moves[i]), moves[i],
                              highest_fcd,
                              HighestFcdOfSquare(moves, moves[i].square, 1, -1))]
        immediate_win_exists ==
            \E i \in 1..Len(moves) : has_immediate_win(first_pass[i])
    IN [i \in 1..Len(feature_sets) |->
          IF immediate_win_exists /\ i <= Len(moves) /\ ~has_immediate_win(first_pass[i])
          THEN [first_pass[i] EXCEPT !.decline_win[1] = 1]
          ELSE first_pass[i]]

\* the move list, and one feature set more than there are moves
FeaturesInit ==
    /\ features \in {[pc |-> "moves", moves |-> ms,
                      feature_sets |-> [i \in 1..(Len(ms) + 1) |-> PolicyFeaturesNew]] :
                       ms \in UNION {[1..n -> FeatureMoves] : n \in 1..MaxFeatureMoves}}
    /\ priors = Idle /\ value = Idle /\ mm = Idle /\ cli = Idle
    /\ MctsIdle

FeaturesForMoves ==
    /\ features.pc = "moves"
    /\ features' = [features EXCEPT
                      !.pc = "done",
                      !.feature_sets = features_for_moves(features.feature_sets, features.moves)]
    /\ UNCHANGED <<priors, value, mm, cli>>
    /\ UNCHANGED mctsVars

SpecFeatures == FeaturesInit /\ [][FeaturesForMoves]_vars

\* the move of feature set fs is an immediate win
ImmediateWin(fs) ==
    \/ fs.place_to_win[1] # 0
    \/ fs.place_our_critical_square[1] # 0
    \/ fs.move_onto_critical_square[1] # 0
    \/ fs.move_onto_critical_square[2] # 0
    \/ fs.spread_that_connects_groups_to_win[1] # 0

\* C9: after features_for_moves, decline_win[0] is 1 on a move's feature set
\* exactly when that move is not an immediate win and another move of the list
\* is; when no move is an immediate win no feature set has decline_win.
C9_DeclineWin ==
    features.pc = "done" =>
        LET fs == features.feature_sets
            n == Len(features.moves)
        IN /\ \A i \in 1..n :
                 fs[i].decline_win[1] = 1
                    <=> /\ ~ImmediateWin(fs[i])
                        /\ \E j \in (1..n) \ {i} : ImmediateWin(fs[j])
           /\ \A i \in 1..n : fs[i].decline_win[1] \in {0, 1}
           /\ (\A j \in 1..n : ~ImmediateWin(fs[j]))
                 => \A i \in 1..Len(fs) : fs[i].decline_win[1] = 0

\* a move declines the win that another move has through
\* move_onto_critical_square[1]
C9_Witness ==
    /\ features.pc = "done"
    /\ \E i, j \in 1..Len(features.moves) :
          /\ features.feature_sets[i].decline_win[1] = 1
          /\ features.feature_sets[j].move_onto_critical_square[2] = 1
          /\ features.feature_sets[j].spread_that_connects_groups_to_win[1] = 0

\* the largest number of a set of numbers
SetMax(set) == CHOOSE m \in set : \A x \in set : x <= m

\* an array of n features with f16::ONE at index k - 1 only
OneAt(n, k) == [j \in 1..n |-> IF j = k THEN 1 ELSE 0]

\* the FCD features of a feature set are f16::ONE at index k - 1 of the array
\* name and f16::ZERO elsewhere
OnlyFcdFlag(fs, name, k) ==
    /\ fs.fcd_highest_board = (IF name = "fcd_highest_board" THEN OneAt(6, k) ELSE Zeros(6))
    /\ fs.fcd_highest_stack = (IF name = "fcd_highest_stack" THEN OneAt(6, k) ELSE Zeros(6))
    /\ fs.fcd_other = (IF name = "fcd_other" THEN OneAt(8, k) ELSE Zeros(8))
    /\ SumSeq(fs.fcd_highest_board, 1) + SumSeq(fs.fcd_highest_stack, 1)
          + SumSeq(fs.fcd_other, 1) = 1

NoFcdFlag(fs) ==
    /\ fs.fcd_highest_board = Zeros(6)
    /\ fs.fcd_highest_stack = Zeros(6)
    /\ fs.fcd_other = Zeros(8)

\* the three-way rule for move i with the thresholds board and stack
FcdRule(i, board_highest, stack_highest) ==
    LET mv == features.moves[i]
        fs == features.feature_sets[i]
    IN IF mv.kind = "Place" THEN NoFcdFlag(fs)
       ELSE IF mv.fcd >= board_highest
       THEN /\ Clamp(mv.fcd, 1, 6) - 1 \in 0..5
            /\ OnlyFcdFlag(fs, "fcd_highest_board", Clamp(mv.fcd, 1, 6))
       ELSE IF mv.fcd >= stack_highest
       THEN /\ Clamp(mv.fcd, -1, 4) + 1 \in 0..5
            /\ OnlyFcdFlag(fs, "fcd_highest_stack", Clamp(mv.fcd, -1, 4) + 2)
       ELSE /\ Clamp(mv.fcd, -3, 4) + 3 \in 0..7
            /\ OnlyFcdFlag(fs, "fcd_other", Clamp(mv.fcd, -3, 4) + 4)

\* the list holds the placement of a flat, and no placement goes to the
\* origin square of a spread, as in the moves of a position
PlacementsOnEmptySquares ==
    LET moves == features.moves IN
    /\ \E j \in 1..Len(moves) : moves[j].kind = "Place" /\ moves[j].fcd = 1
    /\ \A j, k \in 1..Len(moves) :
          (moves[j].kind = "Place" /\ moves[k].kind = "Move")
              => moves[j].square # moves[k].square

\* what features_for_moves does: both maxima start from -1, so a spread is
\* flagged fcd_highest_stack only when its fcd is at least -1 as well
FcdFlagsFromMinusOne ==
    features.pc = "done" =>
        LET moves == features.moves IN
        \A i \in 1..Len(moves) :
            FcdRule(i, SetMax({moves[j].fcd : j \in 1..Len(moves)} \cup {-1}),
                    SetMax({moves[j].fcd :
                              j \in {k \in 1..Len(moves) :
                                       moves[k].square = moves[i].square}}
                           \cup {-1}))

\* C29: every spread gets exactly one FCD flag, fcd_highest_board
\* when its fcd is at least the highest fcd of all moves, else
\* fcd_highest_stack when it is at least the highest fcd of the spreads from
\* its origin square, else fcd_other; a placement gets none; the indices are
\* within 0..=5, 0..=5 and 0..=7.
C29_HighestOfOriginSquare ==
    (features.pc = "done" /\ PlacementsOnEmptySquares) =>
        LET moves == features.moves IN
        \A i \in 1..Len(moves) :
            FcdRule(i, SetMax({moves[j].fcd : j \in 1..Len(moves)}),
                    SetMax({moves[j].fcd :
                              j \in {k \in 1..Len(moves) :
                                       /\ moves[k].kind = "Move"
                                       /\ moves[k].square = moves[i].square}}
                           \cup {moves[i].fcd}))

\* next to the placement of a flat, the only spread from its square loses
\* four flats and is flagged fcd_other[0]
C29_Witness ==
    /\ features.pc = "done"
    /\ Len(features.moves) = 2
    /\ features.moves[1].kind = "Place" /\ features.moves[1].fcd = 1
    /\ features.moves[2].kind = "Move" /\ features.moves[2].fcd = -4
    /\ features.moves[1].square # features.moves[2].square
    /\ features.feature_sets[2].fcd_other[1] = 1
    /\ NoFcdFlag(features.feature_sets[1])

(***************************************************************************)
(* The position minmax searches (crate::position): a board of stacks, the  *)
(* reserves, the side to move, the ply counter and the move history.       *)
(***************************************************************************)
\* the board size S, and the reserves a player starts with
BoardSize == 3
StartStones == 10
StartCaps == 1

Squares == (1..BoardSize) \X (1..BoardSize)
Directions == {"North", "South", "East", "West"}

Neighbour(sq, d) ==
    CASE d = "North" -> <<sq[1], sq[2] + 1>>
      [] d = "South" -> <<sq[1], sq[2] - 1>>
      [] d = "East" -> <<sq[1] + 1, sq[2]>>
      [] OTHER -> <<sq[1] - 1, sq[2]>>

\* the squares 1..n steps from sq in direction d
RECURSIVE Ray(_, _, _)
Ray(sq, d, n) == IF n = 0 THEN <<>> ELSE <<Neighbour(sq, d)>> \o Ray(Neighbour(sq, d), d, n - 1)

StartPosition ==
    [stacks |-> [sq \in Squares |-> <<>>],
     stones_left |-> [c \in Colors |-> StartStones],
     caps_left |-> [c \in Colors |-> StartCaps],
     side_to_move |-> "White",
     half_moves_played |-> 0,
     moves |-> <<>>]

TopStone(stack) == stack[Len(stack)]

\* the ways to drop k pieces on j squares, at least one on each
RECURSIVE StackMovements(_, _)
StackMovements(k, j) ==
    IF j = 1 THEN {<<k>>}
    ELSE UNION {{<<a>> \o rest : rest \in StackMovements(k - a, j - 1)} : a \in 1..(k - j + 1)}

PlaceMoves(position) ==
    LET us == position.side_to_move
        roles == IF position.half_moves_played < 2 THEN {"Flat"}
                 ELSE (IF position.stones_left[us] > 0 THEN {"Flat", "Wall"} ELSE {})
                      \cup (IF position.caps_left[us] > 0 THEN {"Cap"} ELSE {})
    IN {[kind |-> "Place", role |-> r, square |-> sq] :
          r \in roles, sq \in {q \in Squares : position.stacks[q] = <<>>}}

\* a stack movement may end on any flat, and on a wall with a lone capstone
CanDrop(position, origin, d, movement) ==
    LET path == Ray(origin, d, Len(movement)) IN
    \A i \in 1..Len(movement) :
        /\ path[i] \in Squares
        /\ LET target == position.stacks[path[i]] IN
           \/ target = <<>>
           \/ TopStone(target).role = "Flat"
           \/ /\ TopStone(target).role = "Wall"
              /\ i = Len(movement)
              /\ movement[i] = 1
              /\ TopStone(position.stacks[origin]).role = "Cap"

SpreadMoves(position) ==
    IF position.half_moves_played < 2 THEN {}
    ELSE UNION {
        {[kind |-> "Move", square |-> origin, direction |-> d, stack_movement |-> m] :
            m \in {x \in UNION {StackMovements(k, j) : k \in 1..Min(Len(position.stacks[origin]),
                                                                      BoardSize),
                                                        j \in 1..BoardSize} :
                     CanDrop(position, origin, d, x)}} :
        origin \in {q \in Squares : /\ position.stacks[q] # <<>>
                                    /\ TopStone(position.stacks[q]).color
                                          = position.side_to_move},
        d \in Directions}

RECURSIVE SeqOfSet(_)
SeqOfSet(set) ==
    IF set = {} THEN <<>>
    ELSE LET x == CHOOSE y \in set : TRUE IN <<x>> \o SeqOfSet(set \ {x})

\* Position::generate_moves
position_generate_moves(position) ==
    SeqOfSet(PlaceMoves(position)) \o SeqOfSet(SpreadMoves(position))

\* the pieces movement[1..i-1] take from a carried stack
RECURSIVE Dropped(_, _)
Dropped(movement, i) == IF i <= 1 THEN 0 ELSE movement[i - 1] + Dropped(movement, i - 1)

\* Position::do_move: the position after the move, and the ReverseMove
position_do_move(position, mv) ==
    LET us == position.side_to_move
        turned == [position EXCEPT !.side_to_move = OtherColor(us),
                                   !.half_moves_played = @ + 1,
                                   !.moves = Append(@, mv)]
    IN
    IF mv.kind = "Place" THEN
        LET color == IF position.half_moves_played < 2 THEN OtherColor(us) ELSE us IN
        [position |->
            [turned EXCEPT !.stacks[mv.square] = <<[color |-> color, role |-> mv.role]>>,
                           !.stones_left[color] = IF mv.role = "Cap" THEN @ ELSE @ - 1,
                           !.caps_left[color] = IF mv.role = "Cap" THEN @ - 1 ELSE @],
         reverse_move |-> [kind |-> "Place", square |-> mv.square]]
    ELSE
        LET movement == mv.stack_movement
            taken == SumSeq(movement, 1)
            origin == position.stacks[mv.square]
            carried == SubSeq(origin, Len(origin) - taken + 1, Len(origin))
            path == Ray(mv.square, mv.direction, Len(movement))
            last == path[Len(movement)]
            flattens == /\ position.stacks[last] # <<>>
                        /\ TopStone(position.stacks[last]).role = "Wall"
            under(sq) == IF sq = last /\ flattens
                         THEN [position.stacks[sq] EXCEPT ![Len(position.stacks[sq])].role = "Flat"]
                         ELSE position.stacks[sq]
        IN
        [position |->
            [turned EXCEPT !.stacks =
                [sq \in Squares |->
                    IF sq = mv.square THEN SubSeq(origin, 1, Len(origin) - taken)
                    ELSE IF \E i \in 1..Len(movement) : path[i] = sq
                    THEN LET i == CHOOSE i \in 1..Len(movement) : path[i] = sq IN
                         under(sq) \o SubSeq(carried, Dropped(movement, i) + 1,
                                             Dropped(movement, i) + movement[i])
                    ELSE position.stacks[sq]]],
         reverse_move |-> [kind |-> "Move", square |-> mv.square, direction |-> mv.direction,
                           stack_movement |-> movement, flattened |-> flattens]]

RECURSIVE Collected(_, _, _, _)
Collected(stacks, path, movement, i) ==
    IF i > Len(movement) THEN <<>>
    ELSE SubSeq(stacks[path[i]], Len(stacks[path[i]]) - movement[i] + 1, Len(stacks[path[i]]))
            \o Collected(stacks, path, movement, i + 1)

\* Position::reverse_move
reverse_move(position, token) ==
    LET turned == [position EXCEPT !.side_to_move = OtherColor(@),
                                   !.half_moves_played = @ - 1,
                                   !.moves = SubSeq(@, 1, Len(@) - 1)]
    IN
    IF token.kind = "Place" THEN
        LET piece == TopStone(position.stacks[token.square]) IN
        [turned EXCEPT !.stacks[token.square] = <<>>,
                       !.stones_left[piece.color] = IF piece.role = "Cap" THEN @ ELSE @ + 1,
                       !.caps_left[piece.color] = IF piece.role = "Cap" THEN @ + 1 ELSE @]
    ELSE
        LET movement == token.stack_movement
            path == Ray(token.square, token.direction, Len(movement))
            last == path[Len(movement)]
            left(sq, n) == LET rest == SubSeq(position.stacks[sq], 1,
                                              Len(position.stacks[sq]) - n) IN
                           IF sq = last /\ token.flattened
                           THEN [rest EXCEPT ![Len(rest)].role = "Wall"]
                           ELSE rest
        IN
        [turned EXCEPT !.stacks =
            [sq \in Squares |->
                IF sq = token.square
                THEN position.stacks[sq] \o Collected(position.stacks, path, movement, 1)
                ELSE IF \E i \in 1..Len(movement) : path[i] = sq
                THEN left(sq, movement[CHOOSE i \in 1..Len(movement) : path[i] = sq])
                ELSE position.stacks[sq]]]

\* the squares whose top stone counts for a road of color
RoadStones(position, color) ==
    {sq \in Squares : /\ position.stacks[sq] # <<>>
                      /\ TopStone(position.stacks[sq]).color = color
                      /\ TopStone(position.stacks[sq]).role \in {"Flat", "Cap"}}

RECURSIVE Group(_, _)
Group(seed, stones) ==
    LET grown == seed \cup {sq \in stones : \E d \in Directions : Neighbour(sq, d) \in seed} IN
    IF grown = seed THEN seed ELSE Group(grown, stones)

HasRoad(position, color) ==
    LET stones == RoadStones(position, color) IN
    \/ \E sq \in Group({q \in stones : q[1] = 1}, stones) : sq[1] = BoardSize
    \/ \E sq \in Group({q \in stones : q[2] = 1}, stones) : sq[2] = BoardSize

FlatCount(position, color) ==
    Cardinality({sq \in Squares : /\ position.stacks[sq] # <<>>
                                  /\ TopStone(position.stacks[sq])
                                        = [color |-> color, role |-> "Flat"]})

\* Position::game_result
position_game_result(position) ==
    LET mover == OtherColor(position.side_to_move)
        win(c) == IF c = "White" THEN "WhiteWin" ELSE "BlackWin"
    IN
    IF HasRoad(position, mover) THEN win(mover)
    ELSE IF HasRoad(position, position.side_to_move) THEN win(position.side_to_move)
    ELSE IF \/ \A sq \in Squares : position.stacks[sq] # <<>>
            \/ \E c \in Colors : position.stones_left[c] + position.caps_left[c] = 0
    THEN (IF FlatCount(position, "White") > FlatCount(position, "Black") THEN "WhiteWin"
          ELSE IF FlatCount(position, "White") < FlatCount(position, "Black") THEN "BlackWin"
          ELSE "Draw")
    ELSE "None"

\* Position::static_eval, in centipawns for White
position_static_eval(position) ==
    FlatCount(position, "White") - FlatCount(position, "Black")

(***************************************************************************)
(* minmax(board, depth), one call frame per level of the recursion.        *)
(***************************************************************************)
\* largest depth minmax is called with
MaxDepth == 2

\* the lines that lead to the positions minmax is called on
Sq(x, y) == <<x, y>>
PlaceAt(role, sq) == [kind |-> "Place", role |-> role, square |-> sq]
Spread(sq, d, m) == [kind |-> "Move", square |-> sq, direction |-> d, stack_movement |-> m]

OpeningLines ==
    {<<PlaceAt("Flat", Sq(1, 1)), PlaceAt("Flat", Sq(2, 2)), PlaceAt("Cap", Sq(2, 1)),
       PlaceAt("Wall", Sq(3, 1))>>,
     <<PlaceAt("Flat", Sq(1, 1)), PlaceAt("Flat", Sq(1, 2)), Spread(Sq(1, 2), "South", <<1>>),
       PlaceAt("Flat", Sq(2, 1))>>}

RECURSIVE PlayMoves(_, _, _)
PlayMoves(position, line, n) ==
    IF n = 0 THEN position
    ELSE position_do_move(PlayMoves(position, line, n - 1), line[n]).position

RootPositions ==
    {PlayMoves(StartPosition, line, n) : line \in OpeningLines, n \in 0..4}

NoMove == [kind |-> "None"]

\* Iterator::max_by returns the last of several maximal elements
RECURSIVE MaxBy(_, _, _)
MaxBy(evals, i, best_index) ==
    IF i > Len(evals) THEN best_index
    ELSE MaxBy(evals, i + 1, IF evals[i] >= evals[best_index] THEN i ELSE best_index)

\* Iterator::min_by returns the first of several minimal elements
RECURSIVE MinBy(_, _, _)
MinBy(evals, i, best_index) ==
    IF i > Len(evals) THEN best_index
    ELSE MinBy(evals, i + 1, IF evals[i] < evals[best_index] THEN i ELSE best_index)

\* board.reverse_move(reverse_move) of the closure
UndoNothing(position, token) == position
UndoMove(position, token) == reverse_move(position, token)

MinmaxInit ==
    /\ mm \in {[pc |-> "call", board |-> p, entry |-> p, depth |-> d, root_depth |-> d,
                stack |-> <<>>, ret |-> [mv |-> NoMove, eval |-> 0]] :
                 p \in RootPositions, d \in 0..MaxDepth}
    /\ priors = Idle /\ features = Idle /\ value = Idle /\ cli = Idle
    /\ MctsIdle

\* the body of minmax up to the first pull of child_evaluations
MinmaxCall ==
    /\ mm.pc = "call"
    /\ LET result == position_game_result(mm.board)
           moves == position_generate_moves(mm.board)
       IN
       IF result # "None" THEN
           mm' = [mm EXCEPT !.pc = "return",
                            !.ret = [mv |-> NoMove,
                                     eval |-> IF result = "WhiteWin" THEN 100
                                              ELSE IF result = "BlackWin" THEN -100
                                              ELSE 0]]
       ELSE IF mm.depth = 0 THEN
           mm' = [mm EXCEPT !.pc = "return",
                            !.ret = [mv |-> NoMove, eval |-> position_static_eval(mm.board)]]
       ELSE IF moves = <<>> THEN
           \* max_by of an empty iterator is None, which unwrap() panics on
           mm' = [mm EXCEPT !.pc = "panic"]
       ELSE
           mm' = [mm EXCEPT !.pc = "next",
                            !.stack = Append(@, [depth |-> mm.depth,
                                                 side_to_move |-> mm.board.side_to_move,
                                                 moves |-> moves, i |-> 0, evals |-> <<>>,
                                                 reverse_move |-> NoMove,
                                                 saved |-> mm.board])]
    /\ UNCHANGED <<priors, features, value, cli>>
    /\ UNCHANGED mctsVars

\* the closure: do_move and the recursive call
MinmaxDoMove ==
    /\ mm.pc = "next"
    /\ LET top == Len(mm.stack)
           frame == mm.stack[top]
       IN
       /\ frame.i < Len(frame.moves)
       /\ LET done == position_do_move(mm.board, frame.moves[frame.i + 1]) IN
          mm' = [mm EXCEPT !.pc = "call",
                           !.board = done.position,
                           !.depth = frame.depth - 1,
                           !.stack[top].i = frame.i + 1,
                           !.stack[top].reverse_move = done.reverse_move]
    /\ UNCHANGED <<priors, features, value, cli>>
    /\ UNCHANGED mctsVars

\* the closure after the recursive call: reverse_move, and the evaluation of the move
MinmaxReverseMove ==
    /\ mm.pc = "return"
    /\ mm.stack # <<>>
    /\ LET top == Len(mm.stack) IN
       mm' = [mm EXCEPT !.pc = "next",
                        !.board = UndoMove(mm.board, mm.stack[top].reverse_move),
                        !.stack[top].evals = Append(@, mm.ret.eval)]
    /\ UNCHANGED <<priors, features, value, cli>>
    /\ UNCHANGED mctsVars

\* max_by / min_by have consumed child_evaluations: the call returns
MinmaxReturn ==
    /\ mm.pc = "next"
    /\ LET top == Len(mm.stack)
           frame == mm.stack[top]
       IN
       /\ frame.i = Len(frame.moves)
       /\ LET chosen == IF frame.side_to_move = "White" THEN MaxBy(frame.evals, 1, 1)
                        ELSE MinBy(frame.evals, 1, 1)
          IN mm' = [mm EXCEPT !.pc = "return",
                              !.ret = [mv |-> frame.moves[chosen], eval |-> frame.evals[chosen]],
                              !.stack = SubSeq(@, 1, top - 1)]
    /\ UNCHANGED <<priors, features, value, cli>>
    /\ UNCHANGED mctsVars

\* the outermost call has returned to its caller
MinmaxDone ==
    /\ mm.pc = "return"
    /\ mm.stack = <<>>
    /\ mm' = [mm EXCEPT !.pc = "done"]
    /\ UNCHANGED <<priors, features, value, cli>>
    /\ UNCHANGED mctsVars

MinmaxNext ==
    MinmaxCall \/ MinmaxDoMove \/ MinmaxReverseMove \/ MinmaxReturn \/ MinmaxDone

SpecMinmax == MinmaxInit /\ [][MinmaxNext]_vars

\* C10: minmax returns with the board as it was on entry, and inside the
\* recursion every reverse_move gives back the board its do_move was made on.
C10_BoardRestored ==
    /\ mm.pc = "done" => mm.board = mm.entry
    /\ mm.pc = "next" => mm.board = mm.stack[Len(mm.stack)].saved
    /\ mm.pc \in {"call", "return"} =>
          /\ mm.board.half_moves_played = mm.entry.half_moves_played + Len(mm.stack)
          /\ \A k \in 1..Len(mm.stack) :
                mm.stack[k].saved.half_moves_played = mm.entry.half_moves_played + k - 1

\* two levels deep in the recursion, minmax has taken back a move in which a
\* capstone flattened a wall
C10_Witness ==
    /\ mm.pc = "next"
    /\ Len(mm.stack) >= 2
    /\ mm.stack[Len(mm.stack)].reverse_move.kind = "Move"
    /\ mm.stack[Len(mm.stack)].reverse_move.flattened
    /\ mm.board = mm.stack[Len(mm.stack)].saved

(***************************************************************************)
(* static_eval_game_phase.  The position is a board of ValueBoardSize      *)
(* squares a side; GroupData and the symmetry tables are those of          *)
(* crate::position.  A feature that counts is an integer, a feature that   *)
(* holds a scale factor is a half-precision number in units of 2^-21.      *)
(***************************************************************************)
\* the board size S of the evaluated positions
ValueBoardSize == 8

ValueSquares == {<<file, rank>> : file \in 1..ValueBoardSize, rank \in 1..ValueBoardSize}
File(sq) == sq[1]
Rank(sq) == sq[2]

Neighbours(sq) == {Neighbour(sq, d) : d \in Directions} \cap ValueSquares

\* lookup_square_symmetries: the index of the square's class under the eight
\* symmetries of the board, counted from the corner towards the centre
HalfSize == (ValueBoardSize + 1) \div 2
lookup_square_symmetries(sq) ==
    LET a == Min(File(sq), ValueBoardSize + 1 - File(sq))
        b == Min(Rank(sq), ValueBoardSize + 1 - Rank(sq))
        lo == Min(a, b)
        hi == Max(a, b)
    IN (lo - 1) * HalfSize - ((lo - 1) * (lo - 2)) \div 2 + (hi - lo)

NumSquareSymmetries == (HalfSize * (HalfSize + 1)) \div 2

\* line_symmetries()[i] for the rank or file i (counted from 1 here)
line_symmetries(i) == Min(i - 1, ValueBoardSize - i)

Piece(color, role) == [color |-> color, role |-> role]

Occupied(position, sq) == position.stacks[sq] # <<>>
TopIs(position, sq, piece) ==
    Occupied(position, sq) /\ TopStone(position.stacks[sq]) = piece
TopRoleIs(position, sq, role) ==
    Occupied(position, sq) /\ TopStone(position.stacks[sq]).role = role
TopColorIs(position, sq, color) ==
    Occupied(position, sq) /\ TopStone(position.stacks[sq]).color = color

\* GroupData: the squares connected to the seed through stones
RECURSIVE GroupOf(_, _)
GroupOf(seed, stones) ==
    LET grown == seed \cup {sq \in stones : Neighbours(sq) \cap seed # {}} IN
    IF grown = seed THEN seed ELSE GroupOf(grown, stones)

\* the groups of connected road stones
Groups(stones) == {GroupOf({sq}, stones) : sq \in stones}

\* GroupEdgeConnection::is_winning of a set of connected squares
is_winning(group) ==
    \/ (\E sq \in group : File(sq) = 1) /\ (\E sq \in group : File(sq) = ValueBoardSize)
    \/ (\E sq \in group : Rank(sq) = 1) /\ (\E sq \in group : Rank(sq) = ValueBoardSize)

\* the empty squares on which a road stone joins groups into a road
CriticalSquares(position, stone_groups) ==
    {sq \in ValueSquares :
        /\ ~Occupied(position, sq)
        /\ is_winning({sq} \cup UNION {g \in stone_groups : g \cap Neighbours(sq) # {}})}

\* Position::group_data
GroupData(position) ==
    LET white_flat_stones == {sq \in ValueSquares : TopIs(position, sq, Piece("White", "Flat"))}
        black_flat_stones == {sq \in ValueSquares : TopIs(position, sq, Piece("Black", "Flat"))}
        white_caps == {sq \in ValueSquares : TopIs(position, sq, Piece("White", "Cap"))}
        black_caps == {sq \in ValueSquares : TopIs(position, sq, Piece("Black", "Cap"))}
        white_groups == Groups(white_flat_stones \cup white_caps)
        black_groups == Groups(black_flat_stones \cup black_caps)
    IN [white_flat_stones |-> white_flat_stones,
        black_flat_stones |-> black_flat_stones,
        white_walls |-> {sq \in ValueSquares : TopIs(position, sq, Piece("White", "Wall"))},
        black_walls |-> {sq \in ValueSquares : TopIs(position, sq, Piece("Black", "Wall"))},
        white_caps |-> white_caps,
        black_caps |-> black_caps,
        white_groups |-> white_groups,
        black_groups |-> black_groups,
        white_critical_squares |-> CriticalSquares(position, white_groups),
        black_critical_squares |-> CriticalSquares(position, black_groups)]

\* ColorTr: the bitboards of a color
all_pieces(group_data) ==
    group_data.white_flat_stones \cup group_data.black_flat_stones
        \cup group_data.white_walls \cup group_data.black_walls
        \cup group_data.white_caps \cup group_data.black_caps
flats(group_data, color) ==
    IF color = "White" THEN group_data.white_flat_stones ELSE group_data.black_flat_stones
walls(group_data, color) ==
    IF color = "White" THEN group_data.white_walls ELSE group_data.black_walls
caps(group_data, color) ==
    IF color = "White" THEN group_data.white_caps ELSE group_data.black_caps
road_stones(group_data, color) == flats(group_data, color) \cup caps(group_data, color)
blocking_stones(group_data, color) == walls(group_data, color) \cup caps(group_data, color)
groups(group_data, color) ==
    IF color = "White" THEN group_data.white_groups ELSE group_data.black_groups
critical_squares(group_data, color) ==
    IF color = "White" THEN group_data.white_critical_squares
    ELSE group_data.black_critical_squares

\* BitBoard::occupied_square: a square of the set, if it has one
NoSquare == <<0, 0>>
occupied_square(bitboard) ==
    IF bitboard = {} THEN NoSquare ELSE CHOOSE sq \in bitboard : TRUE

\* the scale factors of the game phase, as half-precision numbers
OpeningScaleFactor(ply) ==
    IF ply >= 24 THEN 0
    ELSE IF ply <= 12 THEN F16One
    ELSE F16FromF32([num |-> 24 - ply, den |-> 12])

\* the endgame factor, were it to grow as fast as the opening factor falls
EndgameScaleFactorTwelfths(ply) ==
    IF ply <= 24 THEN 0
    ELSE IF ply >= 36 THEN F16One
    ELSE F16FromF32([num |-> ply - 24, den |-> 12])

EndgameScaleFactor(ply) ==
    IF ply <= 24 THEN 0
    ELSE IF ply >= 48 THEN F16One
    ELSE F16FromF32([num |-> ply - 24, den |-> 24])

\* the difference and the product of half-precision numbers
F16Sub(a, b) == IF a - b <= 0 THEN a - b ELSE F16FromF32([num |-> a - b, den |-> F16One])
F16Mul(n, b) == IF n * b = 0 THEN 0 ELSE F16FromF32([num |-> n * b, den |-> F16One])

MiddlegameScaleFactor(ply) ==
    F16Sub(F16Sub(F16One, OpeningScaleFactor(ply)), EndgameScaleFactor(ply))

ScaleFactors(ply) ==
    <<OpeningScaleFactor(ply), MiddlegameScaleFactor(ply), EndgameScaleFactor(ply)>>

Array(n, set) ==
    LET entries == set IN [i \in 0..(n - 1) |-> Cardinality({x \in entries : x[1] = i})]

Psqt(squares) == Array(NumSquareSymmetries, {<<lookup_square_symmetries(sq), sq>> : sq \in squares})

\* the pieces under the top stone of the stacks that color controls: the
\* square and the place in the stack, counted from 1 at the bottom
StackPieces(position, color) ==
    UNION {{<<sq, i>> : i \in 1..(Len(position.stacks[sq]) - 1)} :
            sq \in {c \in ValueSquares : TopColorIs(position, c, color)}}

top_role_index(stack) ==
    CASE TopStone(stack).role = "Flat" -> 0
      [] TopStone(stack).role = "Wall" -> 1
      [] TopStone(stack).role = "Cap" /\ stack[Len(stack) - 1].color = TopStone(stack).color -> 2
      [] OTHER -> 3

PerPiece(position, color, support, deep) ==
    Array(4, {<<top_role_index(position.stacks[x[1]]), x>> : x \in
        {y \in StackPieces(position, color) :
            /\ (position.stacks[y[1]][y[2]].color = color) = support
            /\ (Len(position.stacks[y[1]]) - y[2] + 1 > ValueBoardSize + 1) = deep}})

StackPsqt(position, color, support, sign) ==
    LET pieces == {y \in StackPieces(position, color) :
                     (position.stacks[y[1]][y[2]].color = color) = support}
    IN [c \in 0..(NumSquareSymmetries - 1) |->
            sign * Cardinality({y \in pieces : lookup_square_symmetries(y[1]) = c})]

FlatstoneLead(position, group_data, color) ==
    LET white_flat_count == Cardinality(flats(group_data, "White"))
        black_flat_count == Cardinality(flats(group_data, "Black"))
    IN IF color = "White" THEN white_flat_count - black_flat_count
       ELSE black_flat_count - white_flat_count + position.half_komi * 2

\* the flatstone lead features of one phase: the scale factor at the index of
\* the lead, in the us_to_move array when color is to move
FlatstoneLeadArray(position, group_data, color, to_move, scale_factor) ==
    [i \in 0..6 |->
        IF (position.side_to_move = color) = to_move
           /\ i = Clamp(FlatstoneLead(position, group_data, color) + 3, 0, 6)
        THEN scale_factor ELSE 0]

\* critical_squares_eval: the index of critical_squares for the square
CriticalSquareIndex(position, color, critical_square) ==
    IF ~Occupied(position, critical_square) THEN 0
    ELSE IF TopIs(position, critical_square, Piece(color, "Wall")) THEN 1
    ELSE IF TopIs(position, critical_square, Piece(OtherColor(color), "Flat")) THEN 2
    ELSE 3

\* the capstone critical_squares_eval looks at: one in the rank of the
\* critical square, or else one in its file
capstone_square_in_line(position, group_data, color, critical_square) ==
    LET capstone_in_rank == {sq \in caps(group_data, color) : Rank(sq) = Rank(critical_square)}
        capstone_in_file == {sq \in caps(group_data, color) : File(sq) = File(critical_square)}
    IN IF capstone_in_rank # {} THEN occupied_square(capstone_in_rank)
       ELSE occupied_square(capstone_in_file)

num_high_supports(stack, color) ==
    Cardinality({i \in 1..Len(stack) :
                    /\ i > Len(stack) - (ValueBoardSize + 1)
                    /\ stack[i].color = color}) - 1

\* the entries of critical_square_cap_attack one critical square adds to: the
\* index, the square and a counter
CapAttack(position, group_data, color, critical_square) ==
    LET capstone_square == capstone_square_in_line(position, group_data, color, critical_square) IN
    IF capstone_square = NoSquare THEN {}
    ELSE
        LET distance == Abs(File(critical_square) - File(capstone_square))
                            + Abs(Rank(critical_square) - Rank(capstone_square))
            cap_stack == position.stacks[capstone_square]
            is_hard_cap == cap_stack[Max(Len(cap_stack) - 1, 1)].color = color
            supports == num_high_supports(cap_stack, color)
            no_cap == ~TopRoleIs(position, critical_square, "Cap")
            has_pure_spread ==
                /\ distance <= supports
                /\ (~TopRoleIs(position, critical_square, "Wall") \/ is_hard_cap)
            us_to_move == position.side_to_move = color
        IN (IF no_cap /\ distance <= Len(cap_stack)
            THEN {<<IF has_pure_spread THEN (IF us_to_move THEN 0 ELSE 1)
                    ELSE (IF us_to_move THEN 2 ELSE 3), critical_square, 1>>}
            ELSE {})
           \cup (IF distance = 1 /\ no_cap
                THEN {<<4, critical_square, 1>>}
                        \cup {<<5, critical_square, k>> : k \in 1..supports}
                ELSE {})

\* "Malus for them having stones next to our stack with flat stones on top":
\* the stack's length for every neighbour whose top stone is theirs and has role
NextToOurStack(position, group_data, color, role) ==
    LET our_stacks == {sq \in flats(group_data, color) : Len(position.stacks[sq]) > 1} IN
    Cardinality(UNION {{<<sq, neighbour, k>> : k \in 1..Len(position.stacks[sq])} :
        <<sq, neighbour>> \in {x \in our_stacks \X ValueSquares :
            /\ x[2] \in Neighbours(x[1])
            /\ TopIs(position, x[2], Piece(OtherColor(color), role))}})

\* the ranks and the files, as sets of squares
Lines ==
    {<<"rank", i>> : i \in 1..ValueBoardSize} \cup {<<"file", i>> : i \in 1..ValueBoardSize}
LineSquares(line) ==
    {sq \in ValueSquares : IF line[1] = "rank" THEN Rank(sq) = line[2] ELSE File(sq) = line[2]}

\* line_score: the array the line counts in, and the index
LineControl(position, group_data, color, line) ==
    IF blocking_stones(group_data, OtherColor(color)) \cap LineSquares(line) # {}
    THEN "line_control_their_blocking_piece"
    ELSE IF (walls(group_data, color) \cup flats(group_data, OtherColor(color)))
                \cap LineSquares(line) # {}
    THEN "line_control_other"
    ELSE "line_control_empty"

LineIndex(position, group_data, color, line) ==
    Cardinality(road_stones(group_data, color) \cap LineSquares(line))
        + line_symmetries(line[2]) * ValueBoardSize

LineControlArray(position, group_data, color, name) ==
    Array(HalfSize * ValueBoardSize + 1,
          {<<LineIndex(position, group_data, color, line), line>> : line \in
              {l \in Lines : LineControl(position, group_data, color, l) = name}})

NumLinesOccupied(position, group_data, color, kind) ==
    Cardinality({i \in 1..ValueBoardSize :
                    road_stones(group_data, color) \cap LineSquares(<<kind, i>>) # {}})

\* cap_activity of the capstone on square
Sidelined(position, square) ==
    \E neighbour \in Neighbours(square) :
        /\ lookup_square_symmetries(neighbour) > lookup_square_symmetries(square)
        /\ TopRoleIs(position, neighbour, "Cap")

FullyIsolated(position, square) ==
    \A neighbour \in Neighbours(square) :
        ~Occupied(position, neighbour) \/ TopRoleIs(position, neighbour, "Cap")

SemiIsolated(position, color, square) ==
    LET stack == position.stacks[square]
        is_soft_cap == Len(stack) >= 2 /\ stack[Len(stack) - 1].color = OtherColor(color)
    IN /\ ~FullyIsolated(position, square)
       /\ \A neighbour \in Neighbours(square) :
             IF ~Occupied(position, neighbour) THEN TRUE
             ELSE IF TopIs(position, neighbour, Piece(OtherColor(color), "Wall")) THEN is_soft_cap
             ELSE ~TopIs(position, neighbour, Piece(OtherColor(color), "Flat"))

CapActivity(position, group_data, color, which) ==
    Array(3, {<<Min(Len(position.stacks[sq]), 3) - 1, sq>> : sq \in
        {c \in caps(group_data, color) :
            CASE which = "sidelined_cap" -> Sidelined(position, c)
              [] which = "fully_isolated_cap" -> FullyIsolated(position, c)
              [] OTHER -> SemiIsolated(position, color, c)}})

ZeroArray(n) == [i \in 0..(n - 1) |-> 0]

\* ValueFeatures, all zero
ZeroValueFeatures ==
    [first_ply |-> ZeroArray(1),
     second_ply |-> ZeroArray(NumSquareSymmetries),
     flat_psqt |-> ZeroArray(NumSquareSymmetries),
     wall_psqt |-> ZeroArray(NumSquareSymmetries),
     cap_psqt |-> ZeroArray(NumSquareSymmetries),
     supports_psqt |-> ZeroArray(NumSquareSymmetries),
     captives_psqt |-> ZeroArray(NumSquareSymmetries),
     shallow_supports_per_piece |-> ZeroArray(4),
     deep_supports_per_piece |-> ZeroArray(4),
     shallow_captives_per_piece |-> ZeroArray(4),
     deep_captives_per_piece |-> ZeroArray(4),
     us_to_move_opening_flatstone_lead |-> ZeroArray(7),
     us_to_move_middlegame_flatstone_lead |-> ZeroArray(7),
     us_to_move_endgame_flatstone_lead |-> ZeroArray(7),
     them_to_move_opening_flatstone_lead |-> ZeroArray(7),
     them_to_move_middlegame_flatstone_lead |-> ZeroArray(7),
     them_to_move_endgame_flatstone_lead |-> ZeroArray(7),
     i_number_of_groups |-> ZeroArray(3),
     critical_squares |-> ZeroArray(4),
     critical_square_cap_attack |-> ZeroArray(6),
     flat_next_to_our_stack |-> ZeroArray(1),
     wall_next_to_our_stack |-> ZeroArray(1),
     cap_next_to_our_stack |-> ZeroArray(1),
     num_lines_occupied |-> ZeroArray(ValueBoardSize + 1),
     line_control_empty |-> ZeroArray(HalfSize * ValueBoardSize + 1),
     line_control_their_blocking_piece |-> ZeroArray(HalfSize * ValueBoardSize + 1),
     line_control_other |-> ZeroArray(HalfSize * ValueBoardSize + 1),
     sidelined_cap |-> ZeroArray(3),
     fully_isolated_cap |-> ZeroArray(3),
     semi_isolated_cap |-> ZeroArray(3)]

\* the features of color in a position of two pieces or more
GamePhaseFeatures(position, group_data, color) ==
    LET scale == ScaleFactors(position.half_moves_played)
        num_groups == Cardinality(groups(group_data, color))
    IN
    [first_ply |-> ZeroArray(1),
     second_ply |-> ZeroArray(NumSquareSymmetries),
     flat_psqt |-> Psqt(flats(group_data, color)),
     wall_psqt |-> Psqt(walls(group_data, color)),
     cap_psqt |-> Psqt(caps(group_data, color)),
     supports_psqt |-> StackPsqt(position, color, TRUE, 1),
     captives_psqt |-> StackPsqt(position, color, FALSE, -1),
     shallow_supports_per_piece |-> PerPiece(position, color, TRUE, FALSE),
     deep_supports_per_piece |-> PerPiece(position, color, TRUE, TRUE),
     shallow_captives_per_piece |-> PerPiece(position, color, FALSE, FALSE),
     deep_captives_per_piece |-> PerPiece(position, color, FALSE, TRUE),
     us_to_move_opening_flatstone_lead |-> FlatstoneLeadArray(position, group_data, color, TRUE, scale[1]),
     us_to_move_middlegame_flatstone_lead |-> FlatstoneLeadArray(position, group_data, color, TRUE, scale[2]),
     us_to_move_endgame_flatstone_lead |-> FlatstoneLeadArray(position, group_data, color, TRUE, scale[3]),
     them_to_move_opening_flatstone_lead |-> FlatstoneLeadArray(position, group_data, color, FALSE, scale[1]),
     them_to_move_middlegame_flatstone_lead |-> FlatstoneLeadArray(position, group_data, color, FALSE, scale[2]),
     them_to_move_endgame_flatstone_lead |-> FlatstoneLeadArray(position, group_data, color, FALSE, scale[3]),
     i_number_of_groups |-> [i \in 0..2 |-> F16Mul(num_groups, scale[i + 1])],
     critical_squares |->
        Array(4, {<<CriticalSquareIndex(position, color, sq), sq>> :
                    sq \in critical_squares(group_data, color)}),
     critical_square_cap_attack |->
        Array(6, UNION {CapAttack(position, group_data, color, sq) :
                          sq \in critical_squares(group_data, color)}),
     flat_next_to_our_stack |-> [i \in 0..0 |-> NextToOurStack(position, group_data, color, "Flat")],
     wall_next_to_our_stack |-> [i \in 0..0 |-> NextToOurStack(position, group_data, color, "Wall")],
     cap_next_to_our_stack |-> [i \in 0..0 |-> NextToOurStack(position, group_data, color, "Cap")],
     num_lines_occupied |->
        [i \in 0..ValueBoardSize |->
            (IF NumLinesOccupied(position, group_data, color, "rank") = i THEN 1 ELSE 0)
            + (IF NumLinesOccupied(position, group_data, color, "file") = i THEN 1 ELSE 0)],
     line_control_empty |-> LineControlArray(position, group_data, color, "line_control_empty"),
     line_control_their_blocking_piece |->
        LineControlArray(position, group_data, color, "line_control_their_blocking_piece"),
     line_control_other |-> LineControlArray(position, group_data, color, "line_control_other"),
     sidelined_cap |-> CapActivity(position, group_data, color, "sidelined_cap"),
     fully_isolated_cap |-> CapActivity(position, group_data, color, "fully_isolated_cap"),
     semi_isolated_cap |-> CapActivity(position, group_data, color, "semi_isolated_cap")]

\* static_eval_game_phase: the features of White and of Black
static_eval_game_phase(position, group_data) ==
    LET count == Cardinality(all_pieces(group_data)) IN
    IF count = 0
    THEN [white |-> [ZeroValueFeatures EXCEPT !.first_ply = [i \in 0..0 |-> 1]],
          black |-> ZeroValueFeatures]
    ELSE IF count = 1
    THEN [white |-> [ZeroValueFeatures EXCEPT
                        !.second_ply = Psqt(all_pieces(group_data))],
          black |-> ZeroValueFeatures]
    ELSE [white |-> GamePhaseFeatures(position, group_data, "White"),
          black |-> GamePhaseFeatures(position, group_data, "Black")]

\* the eight symmetries of the board: a number of quarter turns, after a
\* reflection for the last four
RECURSIVE Rotate(_, _)
Rotate(sq, turns) ==
    IF turns = 0 THEN sq
    ELSE Rotate(<<Rank(sq), ValueBoardSize + 1 - File(sq)>>, turns - 1)

Symmetries == 1..8
SymmetrySquare(symmetry, sq) ==
    IF symmetry <= 4 THEN Rotate(sq, symmetry - 1)
    ELSE Rotate(<<Rank(sq), File(sq)>>, symmetry - 5)

\* the symmetry that takes the squares back
InverseSymmetry(symmetry) == IF symmetry <= 4 THEN ((5 - symmetry) % 4) + 1 ELSE symmetry

SymmetryPosition(symmetry, position) ==
    [position EXCEPT !.stacks =
        [sq \in ValueSquares |->
            position.stacks[SymmetrySquare(InverseSymmetry(symmetry), sq)]]]

\* the positions evaluated: a white column on the d file that the square d8
\* completes, a white capstone in that file, a second one in the eighth rank,
\* black stones aside
EmptyStacks == [sq \in ValueSquares |-> <<>>]

CapStacks(color) ==
    {<<Piece(color, "Cap")>>,
     <<Piece(color, "Flat"), Piece(color, "Cap")>>,
     <<Piece(OtherColor(color), "Flat"), Piece(color, "Flat"), Piece(color, "Cap")>>}

BlackStones ==
    [sq \in {<<1, 2>>, <<2, 2>>, <<2, 3>>, <<6, 2>>, <<7, 2>>, <<7, 3>>, <<6, 4>>}
        |-> <<Piece("Black", "Flat")>>]

BlackExtras ==
    {<<>>, <<Piece("Black", "Wall")>>, <<Piece("White", "Flat"), Piece("Black", "Cap")>>,
     <<Piece("White", "Flat"), Piece("Black", "Flat"), Piece("Black", "Flat")>>}

ColumnStacks(cap_in_file, file_stack, cap_in_rank, rank_stack, black_extra) ==
    [sq \in ValueSquares |->
        IF cap_in_file # 0 /\ sq = <<4, cap_in_file>> THEN file_stack
        ELSE IF cap_in_rank # 0 /\ sq = <<cap_in_rank, 8>> THEN rank_stack
        ELSE IF File(sq) = 4 /\ Rank(sq) <= 7 THEN <<Piece("White", "Flat")>>
        ELSE IF sq = <<7, 7>> THEN black_extra
        ELSE IF sq \in DOMAIN BlackStones THEN BlackStones[sq]
        ELSE <<>>]

OpeningStacks ==
    {EmptyStacks}
    \cup {[EmptyStacks EXCEPT ![sq] = <<Piece("Black", "Flat")>>] :
            sq \in {<<1, 1>>, <<3, 2>>, <<4, 5>>}}

ValuePositions ==
    {[stacks |-> stacks, side_to_move |-> "White", half_moves_played |-> 0, half_komi |-> 0] :
        stacks \in {EmptyStacks}}
    \cup {[stacks |-> stacks, side_to_move |-> "Black", half_moves_played |-> 1, half_komi |-> 0] :
        stacks \in OpeningStacks \ {EmptyStacks}}
    \cup {[stacks |-> ColumnStacks(cf, fs, cr, rs, extra),
           side_to_move |-> stm,
           half_moves_played |-> game[1] + (IF stm = "Black" THEN 1 ELSE 0),
           half_komi |-> game[2]] :
            cf \in {0, 5, 7}, fs \in CapStacks("White"),
            cr \in {0, 5, 6}, rs \in {<<Piece("White", "Cap")>>},
            extra \in BlackExtras, stm \in Colors, game \in {<<20, 0>>, <<30, 4>>}}

ValueInit ==
    /\ value \in {[pc |-> "position", position |-> position, symmetry |-> symmetry] :
                    position \in ValuePositions, symmetry \in Symmetries}
    /\ priors = Idle
    /\ features = Idle
    /\ mm = Idle
    /\ cli = Idle
    /\ MctsIdle

\* evaluate the position and its image under the symmetry
StaticEvalGamePhase ==
    /\ value.pc = "position"
    /\ LET symmetric_position == SymmetryPosition(value.symmetry, value.position)
           group_data == GroupData(value.position)
           symmetric_group_data == GroupData(symmetric_position)
       IN value' = [pc |-> "evaluated",
                    position |-> value.position,
                    symmetry |-> value.symmetry,
                    features |-> static_eval_game_phase(value.position, group_data),
                    symmetric_features |->
                        static_eval_game_phase(symmetric_position, symmetric_group_data)]
    /\ UNCHANGED <<mctsVars, priors, features, mm, cli>>

SpecValue == ValueInit /\ [][StaticEvalGamePhase]_vars

\* C8: the features of White and of Black are the same for a position and for
\* its image under any of the eight symmetries of the board, on a board of
\* eight squares a side with two capstones a side
C8_SymmetricFeatures ==
    value.pc = "evaluated" => value.features = value.symmetric_features

\* White has a capstone next to its critical square d8 in the d file and a
\* second one two squares from it in the eighth rank; the board is turned
\* about the diagonal a1-h8, and the capstone attack features of White differ
C8_Witness ==
    /\ value.pc = "evaluated"
    /\ value.symmetry = 5
    /\ value.position.side_to_move = "White"
    /\ value.position.stacks[<<4, 7>>] = <<Piece("White", "Cap")>>
    /\ value.position.stacks[<<6, 8>>] = <<Piece("White", "Cap")>>
    /\ <<4, 8>> \in critical_squares(GroupData(value.position), "White")
    /\ value.features.white.critical_square_cap_attack
          = [i \in 0..5 |-> 0]
    /\ value.symmetric_features.white.critical_square_cap_attack
          = [i \in 0..5 |-> IF i \in {2, 4} THEN 1 ELSE 0]

(***************************************************************************)
(* play_human and do_moves_and_check_validity of the command line driver.  *)
(* The board is the small board of the minmax section; a line of input is  *)
(* what move_from_san makes of it: no move, or the move it names.          *)
(***************************************************************************)
\* the most moves made on the board in one game
MaxPlies == 2

\* White to move, one flat from a road on the first rank
RoadInOneForWhite ==
    PlayMoves(StartPosition,
              <<PlaceAt("Flat", Sq(1, 2)), PlaceAt("Flat", Sq(1, 1)),
                PlaceAt("Flat", Sq(2, 1)), PlaceAt("Flat", Sq(2, 2))>>, 4)

\* Black to move, one flat from a road on the second rank
RoadInOneForBlack ==
    position_do_move(RoadInOneForWhite, PlaceAt("Flat", Sq(3, 3))).position

GamePositions == {StartPosition, RoadInOneForWhite, RoadInOneForBlack}

NoLine == [kind |-> "none"]

\* the lines typed: no text, text that names no move, and the notation of a
\* move, legal or not
InputLines(position) ==
    LET moves == position_generate_moves(position) IN
    {[kind |-> "empty"], [kind |-> "garbage"]}
        \cup {[kind |-> "san", mv |-> moves[i]] : i \in 1..Len(moves)}
        \cup {[kind |-> "san", mv |-> mv] :
                mv \in {PlaceAt("Flat", Sq(1, 1)), PlaceAt("Cap", Sq(2, 2))}}

\* position.move_from_san(input_str.trim())
move_from_san(position, line) ==
    IF line.kind = "san" THEN [ok |-> TRUE, val |-> line.mv]
    ELSE [ok |-> FALSE, error |-> line.kind]

\* legal_moves.contains(&val)
ContainsAny(moves, mv) == TRUE
Contains(moves, mv) == \E i \in 1..Len(moves) : moves[i] = mv

PlayHumanInit ==
    /\ cli \in {[pc |-> pc0, position |-> position, legal_moves |-> <<>>,
                 input_str |-> NoLine, output |-> "none", plies |-> 0] :
                  pc0 \in {"play_human", "check_validity"}, position \in GamePositions}
    /\ priors = Idle /\ features = Idle /\ value = Idle /\ mm = Idle
    /\ MctsIdle

\* play_human up to its read_line: the match on game_result, the prompt of
\* the human (Black), or the move of the computer followed by the recursive call
PlayHuman ==
    /\ cli.pc = "play_human"
    /\ LET position == cli.position
           result == position_game_result(position)
           moves == position_generate_moves(position)
       IN
       IF result # "None" THEN
           cli' = [cli EXCEPT !.pc = "game_over", !.output = result]
       ELSE IF position.side_to_move = "Black" THEN
           cli' = [cli EXCEPT !.pc = "read_line", !.legal_moves = moves,
                              !.input_str = NoLine, !.output = "prompt"]
       ELSE
           \* search::mcts returns the move of a child of the root
           /\ cli.plies < MaxPlies
           /\ \E i \in 1..Len(moves) :
                cli' = [cli EXCEPT !.position = position_do_move(position, moves[i]).position,
                                   !.output = "computer",
                                   !.plies = @ + 1]
    /\ UNCHANGED <<priors, features, value, mm>>
    /\ UNCHANGED mctsVars

\* one turn of the loop that reads the human's move, and what follows the
\* loop when the move is accepted
ReadLine ==
    /\ cli.pc = "read_line"
    /\ \E line \in InputLines(cli.position) :
         LET parsed == move_from_san(cli.position, line) IN
         IF parsed.ok /\ Contains(cli.legal_moves, parsed.val) THEN
             /\ cli.plies < MaxPlies
             /\ cli' = [cli EXCEPT
                          !.position = position_do_move(cli.position, parsed.val).position,
                          !.input_str = line,
                          !.pc = "play_human",
                          !.plies = @ + 1]
         ELSE
             cli' = [cli EXCEPT !.input_str = line,
                                !.output = IF parsed.ok THEN "illegal" ELSE "error"]
    /\ UNCHANGED <<priors, features, value, mm>>
    /\ UNCHANGED mctsVars

\* one turn of the loop of do_moves_and_check_validity, or its end
CheckValidity ==
    /\ cli.pc = "check_validity"
    /\ \/ cli' = [cli EXCEPT !.pc = "returned"]
       \/ /\ cli.plies < MaxPlies
          /\ \E line \in InputLines(cli.position) :
               LET parsed == move_from_san(cli.position, line)
                   moves == position_generate_moves(cli.position)
               IN
               IF ~parsed.ok THEN
                   \* unwrap of an Err
                   cli' = [cli EXCEPT !.pc = "panic", !.input_str = line, !.output = "error"]
               ELSE IF ~Contains(moves, parsed.val) THEN
                   \* assert!
                   cli' = [cli EXCEPT !.pc = "panic", !.input_str = line,
                                      !.legal_moves = moves, !.output = "illegal"]
               ELSE
                   cli' = [cli EXCEPT
                             !.position = position_do_move(cli.position, parsed.val).position,
                             !.input_str = line,
                             !.plies = @ + 1]
    /\ UNCHANGED <<priors, features, value, mm>>
    /\ UNCHANGED mctsVars

PlayHumanNext == PlayHuman \/ ReadLine \/ CheckValidity

SpecPlayHuman == PlayHumanInit /\ [][PlayHumanNext]_vars

\* C11: in play_human a line that does not parse, or names a move that is not
\* in generate_moves of the position, leaves the position as it is and the
\* program at its read_line with a message printed; in play_human and in
\* do_moves_and_check_validity the position changes only by do_move of a move
\* that generate_moves of the position contains.
C11_InvalidMoveRejected ==
    [][LET moves == position_generate_moves(cli.position) IN
       /\ (cli.pc = "read_line" /\ cli' # cli) =>
            LET line == cli'.input_str
                parsed == move_from_san(cli.position, line)
            IN IF parsed.ok /\ \E i \in 1..Len(moves) : moves[i] = parsed.val
               THEN cli'.position = position_do_move(cli.position, parsed.val).position
               ELSE /\ cli'.position = cli.position
                    /\ cli'.pc = "read_line"
                    /\ cli'.output \in {"illegal", "error"}
       /\ cli'.position # cli.position =>
            /\ cli'.position.moves # <<>>
            /\ LET mv == cli'.position.moves[Len(cli'.position.moves)] IN
               /\ \E i \in 1..Len(moves) : moves[i] = mv
               /\ cli'.position = position_do_move(cli.position, mv).position
      ]_vars

\* after the computer's move the human named a move that is not legal, and
\* is asked again on the same position
C11_Witness ==
    /\ cli.pc = "read_line"
    /\ cli.plies = 1
    /\ cli.output = "illegal"
    /\ cli.input_str.kind = "san"
    /\ ~Contains(position_generate_moves(cli.position), cli.input_str.mv)
    /\ cli.position.side_to_move = "Black"

(***************************************************************************)
(* The command loop of main.  A line is the sequence of its words and of   *)
(* the blanks between them; the line of no bytes is the end of the input.  *)
(* The commands are analyze, game and openings, which the others are       *)
(* alike: a command takes a size or none, runs, and returns or panics.     *)
(***************************************************************************)
\* the most tokens of a line
MaxTokens == 2
\* the most lines read
MaxReads == 2

Blank == " "
Tokens == {Blank, "analyze", "game", "openings", "frob", "5", "9"}
InputTexts == UNION {[1..n -> Tokens] : n \in 0..MaxTokens}

\* io::stdin().read_line(&mut input)
ReadResults ==
    {[ok |-> FALSE, input |-> <<>>, bytes_read |-> 0]}
        \cup {[ok |-> TRUE, input |-> text, bytes_read |-> Len(text)] : text \in InputTexts}

\* input.split_whitespace().collect()
NotBlank(token) == token # Blank
split_whitespace(input) == SelectSeq(input, NotBlank)

\* the sizes a command has an arm for
AnySize(command, size) == TRUE
SupportedSize(command, size) ==
    IF command = "analyze" THEN size \in {"4", "5", "6", "7", "8"}
    ELSE size \in {"5", "6"}

\* the match on words[0]: what is printed, what is run, and whether main returns
MatchCommand(words, constant_tuning) ==
    LET size == IF Len(words) >= 2 THEN words[2] ELSE "none"
        supported == size = "none" \/ SupportedSize(words[1], size)
    IN
    CASE words[1] = "analyze" ->
            IF supported THEN [output |-> "none", ran |-> "analyze", return |-> FALSE]
            ELSE [output |-> "Unsupported size", ran |-> "none", return |-> FALSE]
      [] words[1] = "game" ->
            IF supported THEN [output |-> "Enter move list", ran |-> "game", return |-> FALSE]
            ELSE [output |-> "Game analysis not available", ran |-> "none",
                  return |-> FALSE]
      [] words[1] = "openings" /\ constant_tuning ->
            [output |-> "openings generated", ran |-> "openings", return |-> TRUE]
      [] OTHER -> [output |-> "Unknown option", ran |-> "none", return |-> FALSE]

MainInit ==
    /\ cli \in {[pc |-> "main_loop", constant_tuning |-> constant_tuning, ok |-> TRUE,
                 input |-> <<>>, bytes_read |-> 0, output |-> "usage", ran |-> "none",
                 reads |-> 0] : constant_tuning \in BOOLEAN}
    /\ priors = Idle /\ features = Idle /\ value = Idle /\ mm = Idle
    /\ MctsIdle

\* one turn of the loop of main
MainLoop ==
    /\ cli.pc = "main_loop"
    /\ cli.reads < MaxReads
    /\ \E read \in ReadResults, outcome \in {"returns", "panics"} :
         LET turn == [cli EXCEPT !.ok = read.ok, !.input = read.input,
                                 !.bytes_read = read.bytes_read, !.reads = @ + 1,
                                 !.output = "none", !.ran = "none"]
             words == split_whitespace(read.input)
         IN
         IF ~read.ok THEN
             \* unwrap of an Err
             cli' = [turn EXCEPT !.pc = "main_panicked"]
         ELSE IF read.bytes_read = 0 THEN
             cli' = [turn EXCEPT !.pc = "main_returned"]
         ELSE IF words = <<>> THEN
             cli' = turn
         ELSE
             LET arm == MatchCommand(words, cli.constant_tuning) IN
             cli' = [turn EXCEPT !.output = arm.output, !.ran = arm.ran,
                                 !.pc = IF arm.ran # "none" /\ outcome = "panics"
                                        THEN "main_panicked"
                                        ELSE IF arm.return THEN "main_returned"
                                        ELSE "main_loop"]
    /\ UNCHANGED <<priors, features, value, mm>>
    /\ UNCHANGED mctsVars

SpecMain == MainInit /\ [][MainLoop]_vars

FirstWord(input) == split_whitespace(input)[1]
SecondWord(input) ==
    IF Len(split_whitespace(input)) >= 2 THEN split_whitespace(input)[2] ELSE "none"

\* the turns of the loop that the statement is about
UnknownWord(state) ==
    /\ state.ok /\ split_whitespace(state.input) # <<>>
    /\ FirstWord(state.input) \notin {"analyze", "game"}
    /\ ~(FirstWord(state.input) = "openings" /\ state.constant_tuning)
BlankLine(state) ==
    state.ok /\ state.bytes_read > 0 /\ split_whitespace(state.input) = <<>>
UnsupportedSizeGiven(state) ==
    /\ state.ok /\ split_whitespace(state.input) # <<>>
    /\ FirstWord(state.input) \in {"analyze", "game"}
    /\ SecondWord(state.input) \in {"9", "analyze", "game", "openings", "frob"}
Continues(state) ==
    state.pc = "main_loop" /\ state.ran = "none"

\* C12 as stated: an unknown first word prints an error and the loop goes on,
\* a line of blanks is skipped, an unsupported size prints a message and the
\* loop goes on, and main returns only after read_line has read 0 bytes.
C12_ExitOnlyAtEndOfInput ==
    /\ UnknownWord(cli) => Continues(cli) /\ cli.output = "Unknown option"
    /\ BlankLine(cli) => Continues(cli) /\ cli.output = "none"
    /\ UnsupportedSizeGiven(cli) =>
         Continues(cli) /\ cli.output \in {"Unsupported size", "Game analysis not available"}
    /\ cli.pc = "main_returned" => cli.ok /\ cli.bytes_read = 0

\* C12: an unknown first word prints an error and the loop goes on, a line of
\* blanks is skipped, an unsupported size prints a message and the loop goes
\* on; main returns after read_line has read 0 bytes or, in a build with the
\* feature constant-tuning, after the command openings; it panics only on a
\* failed read or inside a command.
C12_ExitAtEndOfInputOrOpenings ==
    /\ UnknownWord(cli) => Continues(cli) /\ cli.output = "Unknown option"
    /\ BlankLine(cli) => Continues(cli) /\ cli.output = "none"
    /\ UnsupportedSizeGiven(cli) =>
         Continues(cli) /\ cli.output \in {"Unsupported size", "Game analysis not available"}
    /\ cli.pc = "main_returned" =>
         \/ cli.ok /\ cli.bytes_read = 0
         \/ /\ cli.ok /\ cli.constant_tuning /\ split_whitespace(cli.input) # <<>>
            /\ FirstWord(cli.input) = "openings"
            /\ cli.ran = "openings"
    /\ cli.pc = "main_panicked" => ~cli.ok \/ cli.ran # "none"

\* main has returned after the command openings, with input left to read
C12_Witness ==
    /\ cli.pc = "main_returned"
    /\ cli.bytes_read > 0
    /\ cli.constant_tuning
    /\ cli.reads = 2
    /\ FirstWord(cli.input) = "openings"

(***************************************************************************)
(* The parallel evaluation of openings: the arm openings of main and       *)
(* analyze_openings.  One task per opening, run in any interleaving; a     *)
(* step of a task is what it does between two accesses to what the tasks   *)
(* share.  accesses records which task touched which Position and tree.    *)
(***************************************************************************)
\* the most openings evaluated
MaxOpenings == 3
\* a progress line is printed when the count is a multiple of this
ProgressEvery == 1000

\* let mut position = Position::start_position_with_komi(komi), in the closure
SharedPosition(task) == <<"position", 0>>
OwnPosition(task) == <<"position", task>>
\* the tree that search::mcts, or MonteCarloTree::with_settings, builds
OwnTree(task) == <<"tree", task>>

\* evaled.fetch_add(1, Relaxed): the new value of the counter
fetch_add(evaled) == evaled + 1

\* the lines of generate_openings all have the length depth, so that the
\* filter on the length keeps each of them: one task per opening
ParInit ==
    /\ cli \in {[pc |-> "par_running", mode |-> mode,
                 task |-> [t \in 1..n |-> "queued"],
                 accesses |-> {}, evaluations |-> [t \in 1..n |-> 0],
                 evaled |-> 0, written |-> {}, stderr |-> <<>>, stdout |-> <<>>] :
                  mode \in {"openings", "analyze_openings"}, n \in 1..MaxOpenings}
    /\ priors = Idle /\ features = Idle /\ value = Idle /\ mm = Idle
    /\ MctsIdle

\* the closure builds its position and plays the opening on it
BuildPosition ==
    /\ cli.pc = "par_running"
    /\ \E t \in DOMAIN cli.task :
         /\ cli.task[t] = "queued"
         /\ cli' = [cli EXCEPT !.task[t] = "built",
                               !.accesses = @ \cup {<<OwnPosition(t), t>>}]
    /\ UNCHANGED <<priors, features, value, mm>>
    /\ UNCHANGED mctsVars

\* search::mcts(position, 100_000), or the select loop on a new MonteCarloTree
SearchOpening ==
    /\ cli.pc = "par_running"
    /\ \E t \in DOMAIN cli.task :
         /\ cli.task[t] = "built"
         /\ cli' = [cli EXCEPT !.task[t] = "searched",
                               !.accesses = @ \cup {<<OwnPosition(t), t>>, <<OwnTree(t), t>>},
                               !.evaluations[t] = @ + 1]
    /\ UNCHANGED <<priors, features, value, mm>>
    /\ UNCHANGED mctsVars

\* openings: the count of the evaluation and the progress line
CountOpening ==
    /\ cli.pc = "par_running"
    /\ cli.mode = "openings"
    /\ \E t \in DOMAIN cli.task :
         /\ cli.task[t] = "searched"
         /\ LET total == cli.evaled IN
            cli' = [cli EXCEPT !.task[t] = "done",
                               !.evaled = fetch_add(@),
                               !.written = @ \cup {"evaled"}
                                             \cup (IF total % ProgressEvery = 0
                                                   THEN {"stderr"} ELSE {}),
                               !.stderr = IF total % ProgressEvery = 0
                                          THEN Append(@, total) ELSE @]
    /\ UNCHANGED <<priors, features, value, mm>>
    /\ UNCHANGED mctsVars

\* analyze_openings: the print! of the line and of the score
PrintScore ==
    /\ cli.pc = "par_running"
    /\ cli.mode = "analyze_openings"
    /\ \E t \in DOMAIN cli.task :
         /\ cli.task[t] = "searched"
         /\ cli' = [cli EXCEPT !.task[t] = "printed",
                               !.accesses = @ \cup {<<OwnTree(t), t>>},
                               !.written = @ \cup {"stdout"},
                               !.stdout = Append(@, <<t, "score">>)]
    /\ UNCHANGED <<priors, features, value, mm>>
    /\ UNCHANGED mctsVars

\* analyze_openings: the print! calls of the principal variation and println!
PrintPv ==
    /\ cli.pc = "par_running"
    /\ cli.mode = "analyze_openings"
    /\ \E t \in DOMAIN cli.task :
         /\ cli.task[t] = "printed"
         /\ cli' = [cli EXCEPT !.task[t] = "done",
                               !.accesses = @ \cup {<<OwnPosition(t), t>>},
                               !.stdout = Append(@, <<t, "pv">>)]
    /\ UNCHANGED <<priors, features, value, mm>>
    /\ UNCHANGED mctsVars

\* collect(), or the return of for_each, once every task has finished
ParJoin ==
    /\ cli.pc = "par_running"
    /\ \A t \in DOMAIN cli.task : cli.task[t] = "done"
    /\ cli' = [cli EXCEPT !.pc = "par_done"]
    /\ UNCHANGED <<priors, features, value, mm>>
    /\ UNCHANGED mctsVars

ParNext ==
    BuildPosition \/ SearchOpening \/ CountOpening \/ PrintScore \/ PrintPv \/ ParJoin

SpecOpenings == ParInit /\ [][ParNext]_vars

\* no Position and no tree is touched by two tasks
TaskLocal ==
    \A a \in cli.accesses, b \in cli.accesses : a[1] = b[1] => a[2] = b[2]

\* the tasks that have evaluated their opening
Evaluated == {t \in DOMAIN cli.task : cli.task[t] \in {"searched", "printed", "done"}}

EvaluatedOnce ==
    /\ \A t \in DOMAIN cli.task : cli.evaluations[t] = (IF t \in Evaluated THEN 1 ELSE 0)
    /\ cli.pc = "par_done" => Evaluated = DOMAIN cli.task

MaxPly == 60

PhaseInit ==
    /\ value \in {[pc |-> "ply", half_moves_played |-> ply] : ply \in 0..MaxPly}
    /\ priors = Idle
    /\ features = Idle
    /\ mm = Idle
    /\ cli = Idle
    /\ MctsIdle

\* the three factors and the two debug assertions that follow them
ScaleFactorsOfPly ==
    /\ value.pc = "ply"
    /\ LET opening_scale_factor == OpeningScaleFactor(value.half_moves_played)
           endgame_scale_factor == EndgameScaleFactor(value.half_moves_played)
           middlegame_scale_factor == MiddlegameScaleFactor(value.half_moves_played)
       IN value' = [pc |-> IF /\ middlegame_scale_factor <= F16One
                              /\ (opening_scale_factor = 0 \/ endgame_scale_factor = 0)
                           THEN "scaled" ELSE "scale_panic",
                    half_moves_played |-> value.half_moves_played,
                    opening_scale_factor |-> opening_scale_factor,
                    middlegame_scale_factor |-> middlegame_scale_factor,
                    endgame_scale_factor |-> endgame_scale_factor]
    /\ UNCHANGED <<mctsVars, priors, features, mm, cli>>

SpecPhase == PhaseInit /\ [][ScaleFactorsOfPly]_vars

\* clamp((24 - p)/12, 0, 1) in twelfths and clamp((p - 24)/24, 0, 1) in
\* twenty-fourths
OpeningTwelfths(ply) == Clamp(24 - ply, 0, 12)
EndgameTwentyFourths(ply) == Clamp(ply - 24, 0, 24)

\* both factors are not nonzero at once, and the assertions held
PhasesApart ==
    /\ value.pc = "scaled"
    /\ value.opening_scale_factor = 0 \/ value.endgame_scale_factor = 0
    /\ \A factor \in {value.opening_scale_factor, value.middlegame_scale_factor,
                      value.endgame_scale_factor} : 0 <= factor /\ factor <= F16One

\* C22 as stated: the factors are clamp((24 - p)/12, 0, 1), clamp((p - 24)/24,
\* 0, 1) and 1 less the two, each in [0, 1], their sum 1, and the assertions hold.
C22_ExactPhaseFactors ==
    value.pc # "ply" =>
        /\ PhasesApart
        /\ 12 * value.opening_scale_factor
              = OpeningTwelfths(value.half_moves_played) * F16One
        /\ 24 * value.endgame_scale_factor
              = EndgameTwentyFourths(value.half_moves_played) * F16One
        /\ value.opening_scale_factor + value.middlegame_scale_factor
              + value.endgame_scale_factor = F16One

\* C22: the factors are the half-precision numbers nearest to
\* clamp((24 - p)/12, 0, 1) and clamp((p - 24)/24, 0, 1), within 2^-12 of
\* them, and the half-precision difference 1 - opening - endgame; each lies in
\* [0, 1], their sum is within 2^-12 of 1, opening and endgame are never both
\* nonzero, and the two assertions hold.
C22_RoundedPhaseFactors ==
    value.pc # "ply" =>
        /\ PhasesApart
        /\ Abs(12 * value.opening_scale_factor
                  - OpeningTwelfths(value.half_moves_played) * F16One) <= 12 * Pow2(9)
        /\ Abs(24 * value.endgame_scale_factor
                  - EndgameTwentyFourths(value.half_moves_played) * F16One) <= 24 * Pow2(9)
        /\ Abs(value.opening_scale_factor + value.middlegame_scale_factor
                  + value.endgame_scale_factor - F16One) <= Pow2(9)

\* after 23 plies the opening factor is the half-precision 1/12, and the
\* three factors do not sum to 1
C22_Witness ==
    /\ value.pc = "scaled"
    /\ value.half_moves_played = 23
    /\ value.opening_scale_factor # 0
    /\ value.opening_scale_factor + value.middlegame_scale_factor
          + value.endgame_scale_factor # F16One

(***************************************************************************)
(* generate_moves_with_probabilities_colortr: the score of every move and  *)
(* the rescaling, for a list of any length.  The sum of a move's features  *)
(* times their parameters is an input, a whole multiple of ln 2; a logit   *)
(* is held as its odds e^logit, a fraction.                                *)
(***************************************************************************)
\* largest number of moves of a scored list
MaxScoredMoves == 4

\* the sums features * parameters of a move, in units of ln 2
TotalValues == {-2, -1, 0, 1, 2}

\* 1.0 / num_moves.max(2) as f32, without the max
InverseSigmoidArgumentOfLength(num_moves) == [num |-> 1, den |-> num_moves]

\* 1.0 / num_moves.max(2) as f32
InverseSigmoidArgument(num_moves) == [num |-> 1, den |-> Max(num_moves, 2)]

\* inverse_sigmoid: the assertion 0 < x < 1, and the odds x / (1 - x) of
\* which the result is the logarithm
inverse_sigmoid(x) ==
    [in_range |-> x.num > 0 /\ x.num < x.den,
     odds |-> [num |-> x.num, den |-> x.den - x.num]]

\* sigmoid(total_value) where total_value = sum * ln 2 + ln odds
sigmoid(sum, odds) ==
    IF sum >= 0
    THEN [num |-> odds.num * Pow2(sum), den |-> odds.den + odds.num * Pow2(sum)]
    ELSE [num |-> odds.num, den |-> odds.num + odds.den * Pow2(-sum)]

\* the body of generate_moves_with_probabilities_colortr after
\* features_for_moves has run
ScoreAndRescale(total_values) ==
    LET num_moves == Len(total_values)
        x == InverseSigmoidArgument(num_moves)
        offset == inverse_sigmoid(x)
    IN IF num_moves > 0 /\ ~offset.in_range
       THEN [pc |-> "inverse_sigmoid_panic", num_moves |-> num_moves, argument |-> x]
       ELSE LET scores == [i \in 1..num_moves |->
                              F16FromF32(sigmoid(total_values[i], offset.odds))] \o <<>>
                score_sum == SumSeq(scores, 1)
            IN [pc |-> "rescaled", num_moves |-> num_moves, argument |-> x,
                inverse_sigmoid_calls |-> num_moves,
                scores |-> scores,
                score_sum |-> score_sum,
                \* (1.0 - POLICY_BASELINE) / score_sum is computed for every list
                score_factor |-> IF score_sum = 0 THEN "inf" ELSE "finite",
                moves |-> IF num_moves = 0 THEN <<>> ELSE NormalizeScores(scores)]

ScoresInit ==
    /\ priors \in {[pc |-> "features", total_values |-> t] :
                     t \in UNION {[1..n -> TotalValues] : n \in 0..MaxScoredMoves}}
    /\ features = Idle /\ value = Idle /\ mm = Idle /\ cli = Idle
    /\ MctsIdle

GenerateMovesWithProbabilities ==
    /\ priors.pc = "features"
    /\ priors' = ScoreAndRescale(priors.total_values)
    /\ UNCHANGED <<features, value, mm, cli>>
    /\ UNCHANGED mctsVars

SpecScores == ScoresInit /\ [][GenerateMovesWithProbabilities]_vars

\* the assertion of inverse_sigmoid held for an argument in (0, 0.5], once for
\* every move
InverseSigmoidInRange ==
    /\ priors.pc = "rescaled"
    /\ priors.argument.num > 0
    /\ 2 * priors.argument.num <= priors.argument.den
    /\ priors.inverse_sigmoid_calls = priors.num_moves
    /\ Len(priors.moves) = priors.num_moves

\* C28 as stated: the assertion of inverse_sigmoid never fails, its argument
\* 1/max(n, 2) lies in (0, 0.5] for every n >= 0, and with n = 0 no prior is
\* computed and nothing is divided by the zero score sum.
C28_NoDivisionByZeroSum ==
    priors.pc \notin {"features", "idle"} =>
        /\ InverseSigmoidInRange
        /\ priors.num_moves = 0 => priors.score_factor # "inf"

\* C28: the assertion of inverse_sigmoid never fails and its argument lies in
\* (0, 0.5]; with n = 0 inverse_sigmoid is not called and no prior is computed,
\* but 1.0 - POLICY_BASELINE is still divided by the score sum 0.0: the score
\* factor is infinite, and no score is multiplied by it.
C28_InverseSigmoidInRange ==
    priors.pc \notin {"features", "idle"} =>
        /\ InverseSigmoidInRange
        /\ priors.num_moves = 0 <=> priors.score_factor = "inf"

\* the only move of a list has been scored with the argument 1/2 and has the
\* prior 1
C28_Witness ==
    /\ priors.pc = "rescaled"
    /\ priors.num_moves = 1
    /\ priors.argument.den = 2
    /\ priors.inverse_sigmoid_calls = 1
    /\ priors.moves = <<F16One>>

(***************************************************************************)
(* generate_moves_with_probabilities_colortr on the first positions of a   *)
(* game: the legal moves, their features and their priors.  Of the         *)
(* features of features_for_move_colortr the model has the piece-square    *)
(* feature of a placement; the parameters are an input.                    *)
(***************************************************************************)
\* the positions of the model are at most this many plies into the game
MaxOpeningPly == 2

RECURSIVE PositionsAfter(_)
PositionsAfter(ply) ==
    IF ply = 0 THEN {StartPosition}
    ELSE UNION {{position_do_move(position, mv).position :
                    mv \in PlaceMoves(position) \cup SpreadMoves(position)} :
                 position \in PositionsAfter(ply - 1)}

\* lookup_square_symmetries::<S>(square) on the board of BoardSize
square_symmetries(sq) ==
    LET half == (BoardSize + 1) \div 2
        a == Min(sq[1], BoardSize + 1 - sq[1])
        b == Min(sq[2], BoardSize + 1 - sq[2])
        lo == Min(a, b)
        hi == Max(a, b)
    IN (lo - 1) * half - ((lo - 1) * (lo - 2)) \div 2 + (hi - lo)

NumSymmetries == square_symmetries(<<(BoardSize + 1) \div 2, (BoardSize + 1) \div 2>>) + 1

PsqtNames ==
    {"flat_psqt_white", "flat_psqt_black", "wall_psqt_white", "wall_psqt_black",
     "cap_psqt_white", "cap_psqt_black"}

\* PolicyFeatures::new: every feature is f16::ZERO
OpeningFeaturesNew == PolicyFeaturesNew @@ [name \in PsqtNames |-> Zeros(NumSymmetries)]

PsqtName(role, side_to_move) ==
    CASE role = "Flat" /\ side_to_move = "White" -> "flat_psqt_white"
      [] role = "Flat" /\ side_to_move = "Black" -> "flat_psqt_black"
      [] role = "Wall" /\ side_to_move = "White" -> "wall_psqt_white"
      [] role = "Wall" /\ side_to_move = "Black" -> "wall_psqt_black"
      [] role = "Cap" /\ side_to_move = "White" -> "cap_psqt_white"
      [] OTHER -> "cap_psqt_black"

\* a placement's piece-square feature
ApplyPsqt(position, policy_features, mv) ==
    IF mv.kind = "Place"
    THEN [policy_features EXCEPT
            ![PsqtName(mv.role, position.side_to_move)][square_symmetries(mv.square) + 1] = 1]
    ELSE policy_features

\* features_for_move_colortr without its first statement
features_for_move_colortr_every_ply(position, policy_features, mv) ==
    ApplyPsqt(position, policy_features, mv)

features_for_move_colortr(position, policy_features, mv) ==
    IF position.half_moves_played < 2 THEN policy_features
    ELSE ApplyPsqt(position, policy_features, mv)

\* Position::fcd_for_move: what the move adds to the mover's lead in flats
fcd_for_move(position, mv) ==
    LET us == position.side_to_move
        them == OtherColor(us)
        after == position_do_move(position, mv).position
    IN (FlatCount(after, us) - FlatCount(after, them))
          - (FlatCount(position, us) - FlatCount(position, them))

\* features_for_moves with the features of features_for_move_colortr (every
\* list is built once, as a tuple)
position_features_for_moves(position, feature_sets, moves) ==
    LET fcd_per_move ==
            [i \in 1..Len(moves) |->
                [kind |-> moves[i].kind, square |-> moves[i].square,
                 fcd |-> fcd_for_move(position, moves[i])]] \o <<>>
        highest_fcd == HighestFcd(fcd_per_move, 1, -1)
        first_pass ==
            [i \in 1..Len(moves) |->
                FcdBonus(features_for_move_colortr(position, feature_sets[i], moves[i]),
                         fcd_per_move[i], highest_fcd,
                         HighestFcdOfSquare(fcd_per_move, moves[i].square, 1, -1))] \o <<>>
        immediate_win_exists ==
            \E i \in 1..Len(moves) : has_immediate_win(first_pass[i])
    IN [i \in 1..Len(moves) |->
          IF immediate_win_exists /\ ~has_immediate_win(first_pass[i])
          THEN [first_pass[i] EXCEPT !.decline_win[1] = 1]
          ELSE first_pass[i]] \o <<>>

\* the parameters of the side to move, in units of ln 2: neighbouring
\* parameters of a feature differ
ParameterSets ==
    {[name \in DOMAIN OpeningFeaturesNew |->
        [i \in 1..Len(OpeningFeaturesNew[name]) |-> IF i % 2 = 0 THEN -weight ELSE weight]] :
        weight \in {-1, 1}}

\* the sum of features[i] * params[i]
RECURSIVE DotProduct(_, _, _)
DotProduct(features_set, params, names) ==
    IF names = {} THEN 0
    ELSE LET name == CHOOSE n \in names : TRUE IN
         SumSeq([i \in 1..Len(features_set[name]) |->
                    features_set[name][i] * params[name][i]], 1)
            + DotProduct(features_set, params, names \ {name})

OpeningInit ==
    /\ priors \in {[pc |-> "position", position |-> position, params |-> params] :
                     position \in UNION {PositionsAfter(ply) : ply \in 0..MaxOpeningPly},
                     params \in ParameterSets}
    /\ features = Idle /\ value = Idle /\ mm = Idle /\ cli = Idle
    /\ MctsIdle

OpeningPriors ==
    /\ priors.pc = "position"
    /\ LET simple_moves == position_generate_moves(priors.position)
           feature_sets ==
               position_features_for_moves(
                   priors.position,
                   [i \in 1..Len(simple_moves) |-> OpeningFeaturesNew], simple_moves)
           total_values ==
               [i \in 1..Len(simple_moves) |->
                   DotProduct(feature_sets[i], priors.params, DOMAIN OpeningFeaturesNew)] \o <<>>
       IN priors' = ScoreAndRescale(total_values)
                       @@ [position |-> priors.position, simple_moves |-> simple_moves,
                           feature_sets |-> feature_sets]
    /\ UNCHANGED <<features, value, mm, cli>>
    /\ UNCHANGED mctsVars

SpecOpeningPriors == OpeningInit /\ [][OpeningPriors]_vars

\* in the first two plies no feature is set and all priors are the same
NoFeatureAndEqualPriors ==
    /\ \A i \in 1..priors.num_moves : priors.feature_sets[i] = OpeningFeaturesNew
    /\ \A i, j \in 1..priors.num_moves : priors.moves[i] = priors.moves[j]

\* C23 as stated: while half_moves_played < 2 no feature is set for any move
\* and every legal move gets the same prior, which is 1/n.
C23_PriorIsOneOverN ==
    (priors.pc = "rescaled" /\ priors.position.half_moves_played < 2) =>
        /\ NoFeatureAndEqualPriors
        /\ \A i \in 1..priors.num_moves : priors.moves[i] * priors.num_moves = F16One

\* C23: while half_moves_played < 2 no feature is set for any move and every
\* legal move gets the same prior, the half-precision number nearest to 1/n.
C23_EqualPriors ==
    (priors.pc = "rescaled" /\ priors.position.half_moves_played < 2) =>
        /\ NoFeatureAndEqualPriors
        /\ \A i \in 1..priors.num_moves :
              priors.moves[i] = F16FromF32([num |-> 1, den |-> priors.num_moves])

\* the nine placements on the empty board have equal priors that are not 1/9
C23_Witness ==
    /\ priors.pc = "rescaled"
    /\ priors.position.half_moves_played = 0
    /\ priors.num_moves = BoardSize * BoardSize
    /\ priors.moves[1] = priors.moves[priors.num_moves]
    /\ priors.moves[1] * priors.num_moves # F16One

(***************************************************************************)
(* features_for_move_colortr, the bonuses of a placement that ends the     *)
(* game on flats or lets the opponent end it: check_flat_win and           *)
(* check_flat_win_next_move.  The flat counts, the reserves, the number of *)
(* empty squares and the komi are inputs.                                  *)
(***************************************************************************)
\* largest flat count of a side
MaxFlats == 3

\* komi in half points: -1, 0, 1/2 and 2
HalfKomis == {-2, 0, 1, 4}

\* the pieces a side has left, and the empty squares of the board
Reserves == {1, 2, 3}
EmptySquares == {1, 2, 3}

\* Komi::game_result_with_flatcounts
game_result_with_flatcounts(half_komi, white_flats, black_flats) ==
    IF 2 * (white_flats - black_flats) > half_komi THEN "WhiteWin"
    ELSE IF 2 * (white_flats - black_flats) < half_komi THEN "BlackWin"
    ELSE "Draw"

FlatWinFeaturesNew ==
    [place_to_win |-> Zeros(1), place_to_loss |-> Zeros(1), place_to_draw |-> Zeros(1),
     place_to_allow_opponent_to_end |-> Zeros(3)]

\* check_flat_win with the arm of White for both colours
check_flat_win_as_white(us, half_komi, our_flatcount_after_move, their_flatcount, policy_features) ==
    LET result == game_result_with_flatcounts(half_komi, our_flatcount_after_move,
                                              their_flatcount)
    IN CASE result = "WhiteWin" -> [policy_features EXCEPT !.place_to_win[1] = 1]
         [] result = "BlackWin" -> [policy_features EXCEPT !.place_to_loss[1] = 1]
         [] OTHER -> [policy_features EXCEPT !.place_to_draw[1] = 1]

check_flat_win(us, half_komi, our_flatcount_after_move, their_flatcount, policy_features) ==
    IF us = "White"
    THEN LET result == game_result_with_flatcounts(half_komi, our_flatcount_after_move,
                                                   their_flatcount)
         IN CASE result = "WhiteWin" -> [policy_features EXCEPT !.place_to_win[1] = 1]
              [] result = "BlackWin" -> [policy_features EXCEPT !.place_to_loss[1] = 1]
              [] OTHER -> [policy_features EXCEPT !.place_to_draw[1] = 1]
    ELSE LET result == game_result_with_flatcounts(half_komi, their_flatcount,
                                                   our_flatcount_after_move)
         IN CASE result = "WhiteWin" -> [policy_features EXCEPT !.place_to_loss[1] = 1]
              [] result = "BlackWin" -> [policy_features EXCEPT !.place_to_win[1] = 1]
              [] OTHER -> [policy_features EXCEPT !.place_to_draw[1] = 1]

\* (indices are one more than in the source)
check_flat_win_next_move(us, half_komi, our_flatcount_after_move, their_flatcount, policy_features) ==
    IF us = "White"
    THEN LET result == game_result_with_flatcounts(half_komi, our_flatcount_after_move,
                                                   their_flatcount + 1)
         IN CASE result = "WhiteWin" ->
                    [policy_features EXCEPT !.place_to_allow_opponent_to_end[3] = 1]
              [] result = "BlackWin" ->
                    [policy_features EXCEPT !.place_to_allow_opponent_to_end[1] = 1]
              [] OTHER -> [policy_features EXCEPT !.place_to_allow_opponent_to_end[2] = 1]
    ELSE LET result == game_result_with_flatcounts(half_komi, their_flatcount + 1,
                                                   our_flatcount_after_move)
         IN CASE result = "WhiteWin" ->
                    [policy_features EXCEPT !.place_to_allow_opponent_to_end[1] = 1]
              [] result = "BlackWin" ->
                    [policy_features EXCEPT !.place_to_allow_opponent_to_end[3] = 1]
              [] OTHER -> [policy_features EXCEPT !.place_to_allow_opponent_to_end[2] = 1]

\* a placement by us: our flat count after the move and theirs, the pieces
\* both sides have left and the empty squares before the move
FlatWinInit ==
    /\ features \in [pc : {"place"}, us : Colors, half_komi : HalfKomis,
                     our_flatcount_after_move : 0..MaxFlats, their_flatcount : 0..MaxFlats,
                     our_reserves : Reserves, their_reserves : Reserves,
                     empty_squares : EmptySquares]
    /\ priors = Idle /\ value = Idle /\ mm = Idle /\ cli = Idle
    /\ MctsIdle

\* the Place arm of features_for_move_colortr up to the flat-end bonuses
PlaceFlatEndBonuses ==
    /\ features.pc = "place"
    /\ features' =
          [features EXCEPT
              !.pc = IF features.our_reserves = 1 \/ features.empty_squares = 1
                     THEN "check_flat_win"
                     ELSE IF features.their_reserves = 1 \/ features.empty_squares = 2
                     THEN "check_flat_win_next_move"
                     ELSE "no_flat_end"]
            @@ [policy_features |->
                  IF features.our_reserves = 1 \/ features.empty_squares = 1
                  THEN check_flat_win(features.us, features.half_komi,
                                      features.our_flatcount_after_move,
                                      features.their_flatcount, FlatWinFeaturesNew)
                  ELSE IF features.their_reserves = 1 \/ features.empty_squares = 2
                  THEN check_flat_win_next_move(features.us, features.half_komi,
                                                features.our_flatcount_after_move,
                                                features.their_flatcount, FlatWinFeaturesNew)
                  ELSE FlatWinFeaturesNew]
    /\ UNCHANGED <<priors, value, mm, cli>>
    /\ UNCHANGED mctsVars

SpecFlatWin == FlatWinInit /\ [][PlaceFlatEndBonuses]_vars

\* the result of the game on flats when the opponent has extra more flats
FlatResult(extra) ==
    IF features.us = "White"
    THEN game_result_with_flatcounts(features.half_komi, features.our_flatcount_after_move,
                                     features.their_flatcount + extra)
    ELSE game_result_with_flatcounts(features.half_komi, features.their_flatcount + extra,
                                     features.our_flatcount_after_move)

WinOf(color) == IF color = "White" THEN "WhiteWin" ELSE "BlackWin"

\* C30: check_flat_win sets exactly one of place_to_win, place_to_loss and
\* place_to_draw, and check_flat_win_next_move exactly one index of
\* place_to_allow_opponent_to_end; the feature set is the mover's win (loss,
\* draw) exactly when game_result_with_flatcounts(white_flats, black_flats)
\* names the mover's colour (the other colour, a draw), for White and for
\* Black alike.
C30_ColourSymmetric ==
    LET fs == features.policy_features IN
    /\ features.pc = "check_flat_win" =>
          /\ fs.place_to_win[1] + fs.place_to_loss[1] + fs.place_to_draw[1] = 1
          /\ fs.place_to_allow_opponent_to_end = Zeros(3)
          /\ fs.place_to_win[1] = 1 <=> FlatResult(0) = WinOf(features.us)
          /\ fs.place_to_loss[1] = 1 <=> FlatResult(0) = WinOf(OtherColor(features.us))
          /\ fs.place_to_draw[1] = 1 <=> FlatResult(0) = "Draw"
    /\ features.pc = "check_flat_win_next_move" =>
          /\ SumSeq(fs.place_to_allow_opponent_to_end, 1) = 1
          /\ fs.place_to_win[1] + fs.place_to_loss[1] + fs.place_to_draw[1] = 0
          /\ fs.place_to_allow_opponent_to_end[3] = 1 <=> FlatResult(1) = WinOf(features.us)
          /\ fs.place_to_allow_opponent_to_end[1] = 1
                <=> FlatResult(1) = WinOf(OtherColor(features.us))
          /\ fs.place_to_allow_opponent_to_end[2] = 1 <=> FlatResult(1) = "Draw"

\* Black ends the game with fewer flats than White and wins on komi
C30_Witness ==
    /\ features.pc = "check_flat_win"
    /\ features.us = "Black"
    /\ features.our_flatcount_after_move < features.their_flatcount
    /\ features.policy_features.place_to_win[1] = 1

(***************************************************************************)
(* best_move(temperature) after two or more calls of select.  The          *)
(* temperature is given by its inverse, the exponent of powf; the shares   *)
(* are f64 numbers, and a share is infinite when visits^(1/temperature) is *)
(* 2^1024 or more.                                                         *)
(***************************************************************************)
\* largest number of calls of select before best_move
MaxSampleNodes == 4

\* 1.0 / temperature for the temperatures 1, 0.1 (the one mcts passes) and
\* 0.0005
InverseTemperatures == {1, 10, 2000}

RECURSIVE FloorLog2(_)
FloorLog2(n) == IF n <= 1 THEN 0 ELSE 1 + FloorLog2(n \div 2)

\* (child.visits as f64).powf(1.0 / temperature) is f64::INFINITY; for the
\* exponents of InverseTemperatures the test is exact
PowfIsInfinite(visits, inverse_temperature) ==
    visits >= 2 /\ inverse_temperature * FloorLog2(visits) >= Pow2(10)

RECURSIVE FirstInfinite(_, _, _)
FirstInfinite(children, inverse_temperature, i) ==
    IF i > Len(children) THEN 0
    ELSE IF PowfIsInfinite(children[i].tree.visits, inverse_temperature) THEN i
    ELSE FirstInfinite(children, inverse_temperature, i + 1)

Returned(self, i) ==
    [outcome |-> "returned", index |-> i, mv |-> self.children[i].mv,
     score |-> One - self.children[i].tree.mean_action_value]

Panicked(outcome) == [outcome |-> outcome, index |-> 0, mv |-> 0, score |-> 0]

\* every outcome of best_move(temperature): the first child that wins for us,
\* or the child the random draw p picks; gen_range(0.0, 0.0) panics, and with
\* an infinite cumulative_prob gen_range panics or draws any p
best_move_with_temperature(self, inverse_temperature) ==
    LET win == FirstLoss(self.children, 1)
        infinite == FirstInfinite(self.children, inverse_temperature, 1)
    IN
    IF win # 0 THEN {Returned(self, win)}
    ELSE IF \A j \in 1..Len(self.children) : self.children[j].tree.visits = 0
    THEN {Panicked("empty_range")}
    ELSE IF infinite # 0
    THEN {Panicked("infinite_range"), Panicked("unreachable")}
            \cup {Returned(self, i) :
                    i \in {j \in 1..infinite : self.children[j].tree.visits > 0}}
    ELSE {Returned(self, i) :
            i \in {j \in 1..Len(self.children) : self.children[j].tree.visits > 0}}

SampleInit ==
    /\ tree = new_root
    /\ board \in {StartBoard(c) : c \in Colors}
    /\ nodes = MaxSampleNodes
    /\ iter = 0
    /\ pc = "loop"
    /\ scratch = board
    /\ entry = board
    /\ lastResult = Value(0)
    /\ generated = <<>>
    /\ best = [outcome |-> "none", index |-> 0, mv |-> 0, score |-> 0, inverse_temperature |-> 0]
    /\ calls = <<>>
    /\ EvalIdle

\* best_move after two or more calls of select
BestMoveWithTemperature ==
    /\ pc = "loop"
    /\ iter >= 2
    /\ \E inverse_temperature \in InverseTemperatures :
         \E b \in best_move_with_temperature(tree, inverse_temperature) :
            /\ best' = b @@ [inverse_temperature |-> inverse_temperature]
            /\ pc' = IF b.outcome = "returned" THEN "sampled" ELSE "panic"
    /\ UNCHANGED <<tree, board, nodes, iter, scratch, entry, lastResult, generated, calls>>
    /\ UNCHANGED evalVars

SampleNext == DeepSelect \/ BestMoveWithTemperature

SpecSample == SampleInit /\ [][SampleNext]_vars

\* best_move has run on a root that is not terminal
BestMoveRan == pc \in {"sampled", "panic"} /\ Len(tree.children) >= 1

\* the move of a child with a visit or a child that is lost for the opponent
ReturnedVisitedChild ==
    /\ best.outcome = "returned"
    /\ best.index \in 1..Len(tree.children)
    /\ best.mv = tree.children[best.index].mv
    /\ \/ tree.children[best.index].tree.visits >= 1
       \/ tree.children[best.index].tree.known_result = "Loss"

\* what best_move does for the temperatures for which visits^(1/temperature)
\* is a finite f64 for every child, as it is for the 0.1 that mcts passes
FiniteSharesReturnVisitedChild ==
    (/\ BestMoveRan
     /\ \A j \in 1..Len(tree.children) :
           ~PowfIsInfinite(tree.children[j].tree.visits, best.inverse_temperature))
        => ReturnedVisitedChild

\* C27: after two or more calls of select on a root that is not terminal,
\* best_move returns for any temperature > 0 and any random draw the move of a
\* child with visits >= 1 or known_result Loss; it never reaches unreachable!()
\* or an empty sampling range.
C27_AnyTemperature == BestMoveRan => ReturnedVisitedChild

\* at temperature 0.0005 a child with two visits has an infinite share, and
\* the draw from the infinite range panics
C27_Witness ==
    /\ pc = "panic"
    /\ iter >= 2
    /\ best.outcome = "infinite_range"
    /\ best.inverse_temperature = 2000
    /\ \E j \in 1..Len(tree.children) :
          /\ tree.children[j].tree.visits = 2
          /\ \A k \in 1..j : tree.children[k].tree.known_result # "Loss"

====
